---- MODULE Spec2Model ----
(***************************************************************************)
(* Model of odoo/tools/image.py: the image_process pipeline (short-circuit *)
(* on empty and SVG sources, resolution guard, output format resolution,   *)
(* resize / crop geometry, colorize) and the batch helper                  *)
(* image_resize_images.                                                    *)
(*                                                                         *)
(* Pixels are not modelled.  An image is its size and its format; a        *)
(* base64 source is the first base64 character (the only byte the code     *)
(* looks at) together with what base64_to_image makes of it.  The two      *)
(* Pillow calls that decide sizes, Image.crop and Image.thumbnail, are     *)
(* modelled by their size arithmetic.  Image.thumbnail changed its         *)
(* rounding in Pillow 7; the variable pil fixes which of the two the       *)
(* build runs ("legacy": Pillow < 7, "modern": Pillow >= 7).               *)
(*                                                                         *)
(* Strings that the code transforms (the format names, through upper())    *)
(* are sequences of one-character strings.  Floats that the code computes  *)
(* (w / asked_width, the crop offsets that are multiples of 0.5) are kept  *)
(* exact: ratios are compared by cross-multiplication and offsets are      *)
(* held in half pixels.                                                    *)
(***************************************************************************)
EXTENDS Integers, Sequences, FiniteSets, TLC

VARIABLES pil, call, ret, vals

vars == <<pil, call, ret, vals>>

\* ---------------------------------------------------------------- bounds
\* Small images are 1..MaxDim pixels wide and high.
MaxDim == 6
\* Requested size components are 0..MaxSize (0: derive from the other one).
MaxSize == 8
\* Requested size components in the resolution guard's specification.
MaxGuardSize == 2

\* ------------------------------------------------------------- constants
IMAGE_MAX_RESOLUTION == 45000000
IMAGE_BIG_SIZE == <<1024, 1024>>
IMAGE_LARGE_SIZE == <<256, 256>>
IMAGE_MEDIUM_SIZE == <<128, 128>>
IMAGE_SMALL_SIZE == <<64, 64>>

\* --------------------------------------------------------------- strings
LowerCase == <<"a","b","c","d","e","f","g","h","i","j","k","l","m",
               "n","o","p","q","r","s","t","u","v","w","x","y","z">>
UpperCase == <<"A","B","C","D","E","F","G","H","I","J","K","L","M",
               "N","O","P","Q","R","S","T","U","V","W","X","Y","Z">>

\* A string is the sequence of its characters.  An ASCII character is
\* written as itself and any other character by its code point: "U+0131" is
\* the dotless i.
\* UpperPairs: every character outside ASCII that str.upper() changes, with
\* the characters it becomes (Unicode 14.0: 1499 characters, some of which
\* become two or three).  Every other character outside a..z is unchanged.
UpperPairs ==
    {
     <<"U+00B5", <<"U+039C">>>>, <<"U+00DF", <<"S","S">>>>, <<"U+00E0", <<"U+00C0">>>>,
     <<"U+00E1", <<"U+00C1">>>>, <<"U+00E2", <<"U+00C2">>>>, <<"U+00E3", <<"U+00C3">>>>,
     <<"U+00E4", <<"U+00C4">>>>, <<"U+00E5", <<"U+00C5">>>>, <<"U+00E6", <<"U+00C6">>>>,
     <<"U+00E7", <<"U+00C7">>>>, <<"U+00E8", <<"U+00C8">>>>, <<"U+00E9", <<"U+00C9">>>>,
     <<"U+00EA", <<"U+00CA">>>>, <<"U+00EB", <<"U+00CB">>>>, <<"U+00EC", <<"U+00CC">>>>,
     <<"U+00ED", <<"U+00CD">>>>, <<"U+00EE", <<"U+00CE">>>>, <<"U+00EF", <<"U+00CF">>>>,
     <<"U+00F0", <<"U+00D0">>>>, <<"U+00F1", <<"U+00D1">>>>, <<"U+00F2", <<"U+00D2">>>>,
     <<"U+00F3", <<"U+00D3">>>>, <<"U+00F4", <<"U+00D4">>>>, <<"U+00F5", <<"U+00D5">>>>,
     <<"U+00F6", <<"U+00D6">>>>, <<"U+00F8", <<"U+00D8">>>>, <<"U+00F9", <<"U+00D9">>>>,
     <<"U+00FA", <<"U+00DA">>>>, <<"U+00FB", <<"U+00DB">>>>, <<"U+00FC", <<"U+00DC">>>>,
     <<"U+00FD", <<"U+00DD">>>>, <<"U+00FE", <<"U+00DE">>>>, <<"U+00FF", <<"U+0178">>>>,
     <<"U+0101", <<"U+0100">>>>, <<"U+0103", <<"U+0102">>>>, <<"U+0105", <<"U+0104">>>>,
     <<"U+0107", <<"U+0106">>>>, <<"U+0109", <<"U+0108">>>>, <<"U+010B", <<"U+010A">>>>,
     <<"U+010D", <<"U+010C">>>>, <<"U+010F", <<"U+010E">>>>, <<"U+0111", <<"U+0110">>>>,
     <<"U+0113", <<"U+0112">>>>, <<"U+0115", <<"U+0114">>>>, <<"U+0117", <<"U+0116">>>>,
     <<"U+0119", <<"U+0118">>>>, <<"U+011B", <<"U+011A">>>>, <<"U+011D", <<"U+011C">>>>,
     <<"U+011F", <<"U+011E">>>>, <<"U+0121", <<"U+0120">>>>, <<"U+0123", <<"U+0122">>>>,
     <<"U+0125", <<"U+0124">>>>, <<"U+0127", <<"U+0126">>>>, <<"U+0129", <<"U+0128">>>>,
     <<"U+012B", <<"U+012A">>>>, <<"U+012D", <<"U+012C">>>>, <<"U+012F", <<"U+012E">>>>,
     <<"U+0131", <<"I">>>>, <<"U+0133", <<"U+0132">>>>, <<"U+0135", <<"U+0134">>>>,
     <<"U+0137", <<"U+0136">>>>, <<"U+013A", <<"U+0139">>>>, <<"U+013C", <<"U+013B">>>>,
     <<"U+013E", <<"U+013D">>>>, <<"U+0140", <<"U+013F">>>>, <<"U+0142", <<"U+0141">>>>,
     <<"U+0144", <<"U+0143">>>>, <<"U+0146", <<"U+0145">>>>, <<"U+0148", <<"U+0147">>>>,
     <<"U+0149", <<"U+02BC","N">>>>, <<"U+014B", <<"U+014A">>>>, <<"U+014D", <<"U+014C">>>>,
     <<"U+014F", <<"U+014E">>>>, <<"U+0151", <<"U+0150">>>>, <<"U+0153", <<"U+0152">>>>,
     <<"U+0155", <<"U+0154">>>>, <<"U+0157", <<"U+0156">>>>, <<"U+0159", <<"U+0158">>>>,
     <<"U+015B", <<"U+015A">>>>, <<"U+015D", <<"U+015C">>>>, <<"U+015F", <<"U+015E">>>>,
     <<"U+0161", <<"U+0160">>>>, <<"U+0163", <<"U+0162">>>>, <<"U+0165", <<"U+0164">>>>,
     <<"U+0167", <<"U+0166">>>>, <<"U+0169", <<"U+0168">>>>, <<"U+016B", <<"U+016A">>>>,
     <<"U+016D", <<"U+016C">>>>, <<"U+016F", <<"U+016E">>>>, <<"U+0171", <<"U+0170">>>>,
     <<"U+0173", <<"U+0172">>>>, <<"U+0175", <<"U+0174">>>>, <<"U+0177", <<"U+0176">>>>,
     <<"U+017A", <<"U+0179">>>>, <<"U+017C", <<"U+017B">>>>, <<"U+017E", <<"U+017D">>>>,
     <<"U+017F", <<"S">>>>, <<"U+0180", <<"U+0243">>>>, <<"U+0183", <<"U+0182">>>>,
     <<"U+0185", <<"U+0184">>>>, <<"U+0188", <<"U+0187">>>>, <<"U+018C", <<"U+018B">>>>,
     <<"U+0192", <<"U+0191">>>>, <<"U+0195", <<"U+01F6">>>>, <<"U+0199", <<"U+0198">>>>,
     <<"U+019A", <<"U+023D">>>>, <<"U+019E", <<"U+0220">>>>, <<"U+01A1", <<"U+01A0">>>>,
     <<"U+01A3", <<"U+01A2">>>>, <<"U+01A5", <<"U+01A4">>>>, <<"U+01A8", <<"U+01A7">>>>,
     <<"U+01AD", <<"U+01AC">>>>, <<"U+01B0", <<"U+01AF">>>>, <<"U+01B4", <<"U+01B3">>>>,
     <<"U+01B6", <<"U+01B5">>>>, <<"U+01B9", <<"U+01B8">>>>, <<"U+01BD", <<"U+01BC">>>>,
     <<"U+01BF", <<"U+01F7">>>>, <<"U+01C5", <<"U+01C4">>>>, <<"U+01C6", <<"U+01C4">>>>,
     <<"U+01C8", <<"U+01C7">>>>, <<"U+01C9", <<"U+01C7">>>>, <<"U+01CB", <<"U+01CA">>>>,
     <<"U+01CC", <<"U+01CA">>>>, <<"U+01CE", <<"U+01CD">>>>, <<"U+01D0", <<"U+01CF">>>>,
     <<"U+01D2", <<"U+01D1">>>>, <<"U+01D4", <<"U+01D3">>>>, <<"U+01D6", <<"U+01D5">>>>,
     <<"U+01D8", <<"U+01D7">>>>, <<"U+01DA", <<"U+01D9">>>>, <<"U+01DC", <<"U+01DB">>>>,
     <<"U+01DD", <<"U+018E">>>>, <<"U+01DF", <<"U+01DE">>>>, <<"U+01E1", <<"U+01E0">>>>,
     <<"U+01E3", <<"U+01E2">>>>, <<"U+01E5", <<"U+01E4">>>>, <<"U+01E7", <<"U+01E6">>>>,
     <<"U+01E9", <<"U+01E8">>>>, <<"U+01EB", <<"U+01EA">>>>, <<"U+01ED", <<"U+01EC">>>>,
     <<"U+01EF", <<"U+01EE">>>>, <<"U+01F0", <<"J","U+030C">>>>, <<"U+01F2", <<"U+01F1">>>>,
     <<"U+01F3", <<"U+01F1">>>>, <<"U+01F5", <<"U+01F4">>>>, <<"U+01F9", <<"U+01F8">>>>,
     <<"U+01FB", <<"U+01FA">>>>, <<"U+01FD", <<"U+01FC">>>>, <<"U+01FF", <<"U+01FE">>>>,
     <<"U+0201", <<"U+0200">>>>, <<"U+0203", <<"U+0202">>>>, <<"U+0205", <<"U+0204">>>>,
     <<"U+0207", <<"U+0206">>>>, <<"U+0209", <<"U+0208">>>>, <<"U+020B", <<"U+020A">>>>,
     <<"U+020D", <<"U+020C">>>>, <<"U+020F", <<"U+020E">>>>, <<"U+0211", <<"U+0210">>>>,
     <<"U+0213", <<"U+0212">>>>, <<"U+0215", <<"U+0214">>>>, <<"U+0217", <<"U+0216">>>>,
     <<"U+0219", <<"U+0218">>>>, <<"U+021B", <<"U+021A">>>>, <<"U+021D", <<"U+021C">>>>,
     <<"U+021F", <<"U+021E">>>>, <<"U+0223", <<"U+0222">>>>, <<"U+0225", <<"U+0224">>>>,
     <<"U+0227", <<"U+0226">>>>, <<"U+0229", <<"U+0228">>>>, <<"U+022B", <<"U+022A">>>>,
     <<"U+022D", <<"U+022C">>>>, <<"U+022F", <<"U+022E">>>>, <<"U+0231", <<"U+0230">>>>,
     <<"U+0233", <<"U+0232">>>>, <<"U+023C", <<"U+023B">>>>, <<"U+023F", <<"U+2C7E">>>>,
     <<"U+0240", <<"U+2C7F">>>>, <<"U+0242", <<"U+0241">>>>, <<"U+0247", <<"U+0246">>>>,
     <<"U+0249", <<"U+0248">>>>, <<"U+024B", <<"U+024A">>>>, <<"U+024D", <<"U+024C">>>>,
     <<"U+024F", <<"U+024E">>>>, <<"U+0250", <<"U+2C6F">>>>, <<"U+0251", <<"U+2C6D">>>>,
     <<"U+0252", <<"U+2C70">>>>, <<"U+0253", <<"U+0181">>>>, <<"U+0254", <<"U+0186">>>>,
     <<"U+0256", <<"U+0189">>>>, <<"U+0257", <<"U+018A">>>>, <<"U+0259", <<"U+018F">>>>,
     <<"U+025B", <<"U+0190">>>>, <<"U+025C", <<"U+A7AB">>>>, <<"U+0260", <<"U+0193">>>>,
     <<"U+0261", <<"U+A7AC">>>>, <<"U+0263", <<"U+0194">>>>, <<"U+0265", <<"U+A78D">>>>,
     <<"U+0266", <<"U+A7AA">>>>, <<"U+0268", <<"U+0197">>>>, <<"U+0269", <<"U+0196">>>>,
     <<"U+026A", <<"U+A7AE">>>>, <<"U+026B", <<"U+2C62">>>>, <<"U+026C", <<"U+A7AD">>>>,
     <<"U+026F", <<"U+019C">>>>, <<"U+0271", <<"U+2C6E">>>>, <<"U+0272", <<"U+019D">>>>,
     <<"U+0275", <<"U+019F">>>>, <<"U+027D", <<"U+2C64">>>>, <<"U+0280", <<"U+01A6">>>>,
     <<"U+0282", <<"U+A7C5">>>>, <<"U+0283", <<"U+01A9">>>>, <<"U+0287", <<"U+A7B1">>>>,
     <<"U+0288", <<"U+01AE">>>>, <<"U+0289", <<"U+0244">>>>, <<"U+028A", <<"U+01B1">>>>,
     <<"U+028B", <<"U+01B2">>>>, <<"U+028C", <<"U+0245">>>>, <<"U+0292", <<"U+01B7">>>>,
     <<"U+029D", <<"U+A7B2">>>>, <<"U+029E", <<"U+A7B0">>>>, <<"U+0345", <<"U+0399">>>>,
     <<"U+0371", <<"U+0370">>>>, <<"U+0373", <<"U+0372">>>>, <<"U+0377", <<"U+0376">>>>,
     <<"U+037B", <<"U+03FD">>>>, <<"U+037C", <<"U+03FE">>>>, <<"U+037D", <<"U+03FF">>>>,
     <<"U+0390", <<"U+0399","U+0308","U+0301">>>>, <<"U+03AC", <<"U+0386">>>>, <<"U+03AD", <<"U+0388">>>>,
     <<"U+03AE", <<"U+0389">>>>, <<"U+03AF", <<"U+038A">>>>, <<"U+03B0", <<"U+03A5","U+0308","U+0301">>>>,
     <<"U+03B1", <<"U+0391">>>>, <<"U+03B2", <<"U+0392">>>>, <<"U+03B3", <<"U+0393">>>>,
     <<"U+03B4", <<"U+0394">>>>, <<"U+03B5", <<"U+0395">>>>, <<"U+03B6", <<"U+0396">>>>,
     <<"U+03B7", <<"U+0397">>>>, <<"U+03B8", <<"U+0398">>>>, <<"U+03B9", <<"U+0399">>>>,
     <<"U+03BA", <<"U+039A">>>>, <<"U+03BB", <<"U+039B">>>>, <<"U+03BC", <<"U+039C">>>>,
     <<"U+03BD", <<"U+039D">>>>, <<"U+03BE", <<"U+039E">>>>, <<"U+03BF", <<"U+039F">>>>,
     <<"U+03C0", <<"U+03A0">>>>, <<"U+03C1", <<"U+03A1">>>>, <<"U+03C2", <<"U+03A3">>>>,
     <<"U+03C3", <<"U+03A3">>>>, <<"U+03C4", <<"U+03A4">>>>, <<"U+03C5", <<"U+03A5">>>>,
     <<"U+03C6", <<"U+03A6">>>>, <<"U+03C7", <<"U+03A7">>>>, <<"U+03C8", <<"U+03A8">>>>,
     <<"U+03C9", <<"U+03A9">>>>, <<"U+03CA", <<"U+03AA">>>>, <<"U+03CB", <<"U+03AB">>>>,
     <<"U+03CC", <<"U+038C">>>>, <<"U+03CD", <<"U+038E">>>>, <<"U+03CE", <<"U+038F">>>>,
     <<"U+03D0", <<"U+0392">>>>, <<"U+03D1", <<"U+0398">>>>, <<"U+03D5", <<"U+03A6">>>>,
     <<"U+03D6", <<"U+03A0">>>>, <<"U+03D7", <<"U+03CF">>>>, <<"U+03D9", <<"U+03D8">>>>,
     <<"U+03DB", <<"U+03DA">>>>, <<"U+03DD", <<"U+03DC">>>>, <<"U+03DF", <<"U+03DE">>>>,
     <<"U+03E1", <<"U+03E0">>>>, <<"U+03E3", <<"U+03E2">>>>, <<"U+03E5", <<"U+03E4">>>>,
     <<"U+03E7", <<"U+03E6">>>>, <<"U+03E9", <<"U+03E8">>>>, <<"U+03EB", <<"U+03EA">>>>,
     <<"U+03ED", <<"U+03EC">>>>, <<"U+03EF", <<"U+03EE">>>>, <<"U+03F0", <<"U+039A">>>>,
     <<"U+03F1", <<"U+03A1">>>>, <<"U+03F2", <<"U+03F9">>>>, <<"U+03F3", <<"U+037F">>>>,
     <<"U+03F5", <<"U+0395">>>>, <<"U+03F8", <<"U+03F7">>>>, <<"U+03FB", <<"U+03FA">>>>,
     <<"U+0430", <<"U+0410">>>>, <<"U+0431", <<"U+0411">>>>, <<"U+0432", <<"U+0412">>>>,
     <<"U+0433", <<"U+0413">>>>, <<"U+0434", <<"U+0414">>>>, <<"U+0435", <<"U+0415">>>>,
     <<"U+0436", <<"U+0416">>>>, <<"U+0437", <<"U+0417">>>>, <<"U+0438", <<"U+0418">>>>,
     <<"U+0439", <<"U+0419">>>>, <<"U+043A", <<"U+041A">>>>, <<"U+043B", <<"U+041B">>>>,
     <<"U+043C", <<"U+041C">>>>, <<"U+043D", <<"U+041D">>>>, <<"U+043E", <<"U+041E">>>>,
     <<"U+043F", <<"U+041F">>>>, <<"U+0440", <<"U+0420">>>>, <<"U+0441", <<"U+0421">>>>,
     <<"U+0442", <<"U+0422">>>>, <<"U+0443", <<"U+0423">>>>, <<"U+0444", <<"U+0424">>>>,
     <<"U+0445", <<"U+0425">>>>, <<"U+0446", <<"U+0426">>>>, <<"U+0447", <<"U+0427">>>>,
     <<"U+0448", <<"U+0428">>>>, <<"U+0449", <<"U+0429">>>>, <<"U+044A", <<"U+042A">>>>,
     <<"U+044B", <<"U+042B">>>>, <<"U+044C", <<"U+042C">>>>, <<"U+044D", <<"U+042D">>>>,
     <<"U+044E", <<"U+042E">>>>, <<"U+044F", <<"U+042F">>>>, <<"U+0450", <<"U+0400">>>>,
     <<"U+0451", <<"U+0401">>>>, <<"U+0452", <<"U+0402">>>>, <<"U+0453", <<"U+0403">>>>,
     <<"U+0454", <<"U+0404">>>>, <<"U+0455", <<"U+0405">>>>, <<"U+0456", <<"U+0406">>>>,
     <<"U+0457", <<"U+0407">>>>, <<"U+0458", <<"U+0408">>>>, <<"U+0459", <<"U+0409">>>>,
     <<"U+045A", <<"U+040A">>>>, <<"U+045B", <<"U+040B">>>>, <<"U+045C", <<"U+040C">>>>,
     <<"U+045D", <<"U+040D">>>>, <<"U+045E", <<"U+040E">>>>, <<"U+045F", <<"U+040F">>>>,
     <<"U+0461", <<"U+0460">>>>, <<"U+0463", <<"U+0462">>>>, <<"U+0465", <<"U+0464">>>>,
     <<"U+0467", <<"U+0466">>>>, <<"U+0469", <<"U+0468">>>>, <<"U+046B", <<"U+046A">>>>,
     <<"U+046D", <<"U+046C">>>>, <<"U+046F", <<"U+046E">>>>, <<"U+0471", <<"U+0470">>>>,
     <<"U+0473", <<"U+0472">>>>, <<"U+0475", <<"U+0474">>>>, <<"U+0477", <<"U+0476">>>>,
     <<"U+0479", <<"U+0478">>>>, <<"U+047B", <<"U+047A">>>>, <<"U+047D", <<"U+047C">>>>,
     <<"U+047F", <<"U+047E">>>>, <<"U+0481", <<"U+0480">>>>, <<"U+048B", <<"U+048A">>>>,
     <<"U+048D", <<"U+048C">>>>, <<"U+048F", <<"U+048E">>>>, <<"U+0491", <<"U+0490">>>>,
     <<"U+0493", <<"U+0492">>>>, <<"U+0495", <<"U+0494">>>>, <<"U+0497", <<"U+0496">>>>,
     <<"U+0499", <<"U+0498">>>>, <<"U+049B", <<"U+049A">>>>, <<"U+049D", <<"U+049C">>>>,
     <<"U+049F", <<"U+049E">>>>, <<"U+04A1", <<"U+04A0">>>>, <<"U+04A3", <<"U+04A2">>>>,
     <<"U+04A5", <<"U+04A4">>>>, <<"U+04A7", <<"U+04A6">>>>, <<"U+04A9", <<"U+04A8">>>>,
     <<"U+04AB", <<"U+04AA">>>>, <<"U+04AD", <<"U+04AC">>>>, <<"U+04AF", <<"U+04AE">>>>,
     <<"U+04B1", <<"U+04B0">>>>, <<"U+04B3", <<"U+04B2">>>>, <<"U+04B5", <<"U+04B4">>>>,
     <<"U+04B7", <<"U+04B6">>>>, <<"U+04B9", <<"U+04B8">>>>, <<"U+04BB", <<"U+04BA">>>>,
     <<"U+04BD", <<"U+04BC">>>>, <<"U+04BF", <<"U+04BE">>>>, <<"U+04C2", <<"U+04C1">>>>,
     <<"U+04C4", <<"U+04C3">>>>, <<"U+04C6", <<"U+04C5">>>>, <<"U+04C8", <<"U+04C7">>>>,
     <<"U+04CA", <<"U+04C9">>>>, <<"U+04CC", <<"U+04CB">>>>, <<"U+04CE", <<"U+04CD">>>>,
     <<"U+04CF", <<"U+04C0">>>>, <<"U+04D1", <<"U+04D0">>>>, <<"U+04D3", <<"U+04D2">>>>,
     <<"U+04D5", <<"U+04D4">>>>, <<"U+04D7", <<"U+04D6">>>>, <<"U+04D9", <<"U+04D8">>>>,
     <<"U+04DB", <<"U+04DA">>>>, <<"U+04DD", <<"U+04DC">>>>, <<"U+04DF", <<"U+04DE">>>>,
     <<"U+04E1", <<"U+04E0">>>>, <<"U+04E3", <<"U+04E2">>>>, <<"U+04E5", <<"U+04E4">>>>,
     <<"U+04E7", <<"U+04E6">>>>, <<"U+04E9", <<"U+04E8">>>>, <<"U+04EB", <<"U+04EA">>>>,
     <<"U+04ED", <<"U+04EC">>>>, <<"U+04EF", <<"U+04EE">>>>, <<"U+04F1", <<"U+04F0">>>>,
     <<"U+04F3", <<"U+04F2">>>>, <<"U+04F5", <<"U+04F4">>>>, <<"U+04F7", <<"U+04F6">>>>,
     <<"U+04F9", <<"U+04F8">>>>, <<"U+04FB", <<"U+04FA">>>>, <<"U+04FD", <<"U+04FC">>>>,
     <<"U+04FF", <<"U+04FE">>>>, <<"U+0501", <<"U+0500">>>>, <<"U+0503", <<"U+0502">>>>,
     <<"U+0505", <<"U+0504">>>>, <<"U+0507", <<"U+0506">>>>, <<"U+0509", <<"U+0508">>>>,
     <<"U+050B", <<"U+050A">>>>, <<"U+050D", <<"U+050C">>>>, <<"U+050F", <<"U+050E">>>>,
     <<"U+0511", <<"U+0510">>>>, <<"U+0513", <<"U+0512">>>>, <<"U+0515", <<"U+0514">>>>,
     <<"U+0517", <<"U+0516">>>>, <<"U+0519", <<"U+0518">>>>, <<"U+051B", <<"U+051A">>>>,
     <<"U+051D", <<"U+051C">>>>, <<"U+051F", <<"U+051E">>>>, <<"U+0521", <<"U+0520">>>>,
     <<"U+0523", <<"U+0522">>>>, <<"U+0525", <<"U+0524">>>>, <<"U+0527", <<"U+0526">>>>,
     <<"U+0529", <<"U+0528">>>>, <<"U+052B", <<"U+052A">>>>, <<"U+052D", <<"U+052C">>>>,
     <<"U+052F", <<"U+052E">>>>, <<"U+0561", <<"U+0531">>>>, <<"U+0562", <<"U+0532">>>>,
     <<"U+0563", <<"U+0533">>>>, <<"U+0564", <<"U+0534">>>>, <<"U+0565", <<"U+0535">>>>,
     <<"U+0566", <<"U+0536">>>>, <<"U+0567", <<"U+0537">>>>, <<"U+0568", <<"U+0538">>>>,
     <<"U+0569", <<"U+0539">>>>, <<"U+056A", <<"U+053A">>>>, <<"U+056B", <<"U+053B">>>>,
     <<"U+056C", <<"U+053C">>>>, <<"U+056D", <<"U+053D">>>>, <<"U+056E", <<"U+053E">>>>,
     <<"U+056F", <<"U+053F">>>>, <<"U+0570", <<"U+0540">>>>, <<"U+0571", <<"U+0541">>>>,
     <<"U+0572", <<"U+0542">>>>, <<"U+0573", <<"U+0543">>>>, <<"U+0574", <<"U+0544">>>>,
     <<"U+0575", <<"U+0545">>>>, <<"U+0576", <<"U+0546">>>>, <<"U+0577", <<"U+0547">>>>,
     <<"U+0578", <<"U+0548">>>>, <<"U+0579", <<"U+0549">>>>, <<"U+057A", <<"U+054A">>>>,
     <<"U+057B", <<"U+054B">>>>, <<"U+057C", <<"U+054C">>>>, <<"U+057D", <<"U+054D">>>>,
     <<"U+057E", <<"U+054E">>>>, <<"U+057F", <<"U+054F">>>>, <<"U+0580", <<"U+0550">>>>,
     <<"U+0581", <<"U+0551">>>>, <<"U+0582", <<"U+0552">>>>, <<"U+0583", <<"U+0553">>>>,
     <<"U+0584", <<"U+0554">>>>, <<"U+0585", <<"U+0555">>>>, <<"U+0586", <<"U+0556">>>>,
     <<"U+0587", <<"U+0535","U+0552">>>>, <<"U+10D0", <<"U+1C90">>>>, <<"U+10D1", <<"U+1C91">>>>,
     <<"U+10D2", <<"U+1C92">>>>, <<"U+10D3", <<"U+1C93">>>>, <<"U+10D4", <<"U+1C94">>>>,
     <<"U+10D5", <<"U+1C95">>>>, <<"U+10D6", <<"U+1C96">>>>, <<"U+10D7", <<"U+1C97">>>>,
     <<"U+10D8", <<"U+1C98">>>>, <<"U+10D9", <<"U+1C99">>>>, <<"U+10DA", <<"U+1C9A">>>>,
     <<"U+10DB", <<"U+1C9B">>>>, <<"U+10DC", <<"U+1C9C">>>>, <<"U+10DD", <<"U+1C9D">>>>,
     <<"U+10DE", <<"U+1C9E">>>>, <<"U+10DF", <<"U+1C9F">>>>, <<"U+10E0", <<"U+1CA0">>>>,
     <<"U+10E1", <<"U+1CA1">>>>, <<"U+10E2", <<"U+1CA2">>>>, <<"U+10E3", <<"U+1CA3">>>>,
     <<"U+10E4", <<"U+1CA4">>>>, <<"U+10E5", <<"U+1CA5">>>>, <<"U+10E6", <<"U+1CA6">>>>,
     <<"U+10E7", <<"U+1CA7">>>>, <<"U+10E8", <<"U+1CA8">>>>, <<"U+10E9", <<"U+1CA9">>>>,
     <<"U+10EA", <<"U+1CAA">>>>, <<"U+10EB", <<"U+1CAB">>>>, <<"U+10EC", <<"U+1CAC">>>>,
     <<"U+10ED", <<"U+1CAD">>>>, <<"U+10EE", <<"U+1CAE">>>>, <<"U+10EF", <<"U+1CAF">>>>,
     <<"U+10F0", <<"U+1CB0">>>>, <<"U+10F1", <<"U+1CB1">>>>, <<"U+10F2", <<"U+1CB2">>>>,
     <<"U+10F3", <<"U+1CB3">>>>, <<"U+10F4", <<"U+1CB4">>>>, <<"U+10F5", <<"U+1CB5">>>>,
     <<"U+10F6", <<"U+1CB6">>>>, <<"U+10F7", <<"U+1CB7">>>>, <<"U+10F8", <<"U+1CB8">>>>,
     <<"U+10F9", <<"U+1CB9">>>>, <<"U+10FA", <<"U+1CBA">>>>, <<"U+10FD", <<"U+1CBD">>>>,
     <<"U+10FE", <<"U+1CBE">>>>, <<"U+10FF", <<"U+1CBF">>>>, <<"U+13F8", <<"U+13F0">>>>,
     <<"U+13F9", <<"U+13F1">>>>, <<"U+13FA", <<"U+13F2">>>>, <<"U+13FB", <<"U+13F3">>>>,
     <<"U+13FC", <<"U+13F4">>>>, <<"U+13FD", <<"U+13F5">>>>, <<"U+1C80", <<"U+0412">>>>,
     <<"U+1C81", <<"U+0414">>>>, <<"U+1C82", <<"U+041E">>>>, <<"U+1C83", <<"U+0421">>>>,
     <<"U+1C84", <<"U+0422">>>>, <<"U+1C85", <<"U+0422">>>>, <<"U+1C86", <<"U+042A">>>>,
     <<"U+1C87", <<"U+0462">>>>, <<"U+1C88", <<"U+A64A">>>>, <<"U+1D79", <<"U+A77D">>>>,
     <<"U+1D7D", <<"U+2C63">>>>, <<"U+1D8E", <<"U+A7C6">>>>, <<"U+1E01", <<"U+1E00">>>>,
     <<"U+1E03", <<"U+1E02">>>>, <<"U+1E05", <<"U+1E04">>>>, <<"U+1E07", <<"U+1E06">>>>,
     <<"U+1E09", <<"U+1E08">>>>, <<"U+1E0B", <<"U+1E0A">>>>, <<"U+1E0D", <<"U+1E0C">>>>,
     <<"U+1E0F", <<"U+1E0E">>>>, <<"U+1E11", <<"U+1E10">>>>, <<"U+1E13", <<"U+1E12">>>>,
     <<"U+1E15", <<"U+1E14">>>>, <<"U+1E17", <<"U+1E16">>>>, <<"U+1E19", <<"U+1E18">>>>,
     <<"U+1E1B", <<"U+1E1A">>>>, <<"U+1E1D", <<"U+1E1C">>>>, <<"U+1E1F", <<"U+1E1E">>>>,
     <<"U+1E21", <<"U+1E20">>>>, <<"U+1E23", <<"U+1E22">>>>, <<"U+1E25", <<"U+1E24">>>>,
     <<"U+1E27", <<"U+1E26">>>>, <<"U+1E29", <<"U+1E28">>>>, <<"U+1E2B", <<"U+1E2A">>>>,
     <<"U+1E2D", <<"U+1E2C">>>>, <<"U+1E2F", <<"U+1E2E">>>>, <<"U+1E31", <<"U+1E30">>>>,
     <<"U+1E33", <<"U+1E32">>>>, <<"U+1E35", <<"U+1E34">>>>, <<"U+1E37", <<"U+1E36">>>>,
     <<"U+1E39", <<"U+1E38">>>>, <<"U+1E3B", <<"U+1E3A">>>>, <<"U+1E3D", <<"U+1E3C">>>>,
     <<"U+1E3F", <<"U+1E3E">>>>, <<"U+1E41", <<"U+1E40">>>>, <<"U+1E43", <<"U+1E42">>>>,
     <<"U+1E45", <<"U+1E44">>>>, <<"U+1E47", <<"U+1E46">>>>, <<"U+1E49", <<"U+1E48">>>>,
     <<"U+1E4B", <<"U+1E4A">>>>, <<"U+1E4D", <<"U+1E4C">>>>, <<"U+1E4F", <<"U+1E4E">>>>,
     <<"U+1E51", <<"U+1E50">>>>, <<"U+1E53", <<"U+1E52">>>>, <<"U+1E55", <<"U+1E54">>>>,
     <<"U+1E57", <<"U+1E56">>>>, <<"U+1E59", <<"U+1E58">>>>, <<"U+1E5B", <<"U+1E5A">>>>,
     <<"U+1E5D", <<"U+1E5C">>>>, <<"U+1E5F", <<"U+1E5E">>>>, <<"U+1E61", <<"U+1E60">>>>,
     <<"U+1E63", <<"U+1E62">>>>, <<"U+1E65", <<"U+1E64">>>>, <<"U+1E67", <<"U+1E66">>>>,
     <<"U+1E69", <<"U+1E68">>>>, <<"U+1E6B", <<"U+1E6A">>>>, <<"U+1E6D", <<"U+1E6C">>>>,
     <<"U+1E6F", <<"U+1E6E">>>>, <<"U+1E71", <<"U+1E70">>>>, <<"U+1E73", <<"U+1E72">>>>,
     <<"U+1E75", <<"U+1E74">>>>, <<"U+1E77", <<"U+1E76">>>>, <<"U+1E79", <<"U+1E78">>>>,
     <<"U+1E7B", <<"U+1E7A">>>>, <<"U+1E7D", <<"U+1E7C">>>>, <<"U+1E7F", <<"U+1E7E">>>>,
     <<"U+1E81", <<"U+1E80">>>>, <<"U+1E83", <<"U+1E82">>>>, <<"U+1E85", <<"U+1E84">>>>,
     <<"U+1E87", <<"U+1E86">>>>, <<"U+1E89", <<"U+1E88">>>>, <<"U+1E8B", <<"U+1E8A">>>>,
     <<"U+1E8D", <<"U+1E8C">>>>, <<"U+1E8F", <<"U+1E8E">>>>, <<"U+1E91", <<"U+1E90">>>>,
     <<"U+1E93", <<"U+1E92">>>>, <<"U+1E95", <<"U+1E94">>>>, <<"U+1E96", <<"H","U+0331">>>>,
     <<"U+1E97", <<"T","U+0308">>>>, <<"U+1E98", <<"W","U+030A">>>>, <<"U+1E99", <<"Y","U+030A">>>>,
     <<"U+1E9A", <<"A","U+02BE">>>>, <<"U+1E9B", <<"U+1E60">>>>, <<"U+1EA1", <<"U+1EA0">>>>,
     <<"U+1EA3", <<"U+1EA2">>>>, <<"U+1EA5", <<"U+1EA4">>>>, <<"U+1EA7", <<"U+1EA6">>>>,
     <<"U+1EA9", <<"U+1EA8">>>>, <<"U+1EAB", <<"U+1EAA">>>>, <<"U+1EAD", <<"U+1EAC">>>>,
     <<"U+1EAF", <<"U+1EAE">>>>, <<"U+1EB1", <<"U+1EB0">>>>, <<"U+1EB3", <<"U+1EB2">>>>,
     <<"U+1EB5", <<"U+1EB4">>>>, <<"U+1EB7", <<"U+1EB6">>>>, <<"U+1EB9", <<"U+1EB8">>>>,
     <<"U+1EBB", <<"U+1EBA">>>>, <<"U+1EBD", <<"U+1EBC">>>>, <<"U+1EBF", <<"U+1EBE">>>>,
     <<"U+1EC1", <<"U+1EC0">>>>, <<"U+1EC3", <<"U+1EC2">>>>, <<"U+1EC5", <<"U+1EC4">>>>,
     <<"U+1EC7", <<"U+1EC6">>>>, <<"U+1EC9", <<"U+1EC8">>>>, <<"U+1ECB", <<"U+1ECA">>>>,
     <<"U+1ECD", <<"U+1ECC">>>>, <<"U+1ECF", <<"U+1ECE">>>>, <<"U+1ED1", <<"U+1ED0">>>>,
     <<"U+1ED3", <<"U+1ED2">>>>, <<"U+1ED5", <<"U+1ED4">>>>, <<"U+1ED7", <<"U+1ED6">>>>,
     <<"U+1ED9", <<"U+1ED8">>>>, <<"U+1EDB", <<"U+1EDA">>>>, <<"U+1EDD", <<"U+1EDC">>>>,
     <<"U+1EDF", <<"U+1EDE">>>>, <<"U+1EE1", <<"U+1EE0">>>>, <<"U+1EE3", <<"U+1EE2">>>>,
     <<"U+1EE5", <<"U+1EE4">>>>, <<"U+1EE7", <<"U+1EE6">>>>, <<"U+1EE9", <<"U+1EE8">>>>,
     <<"U+1EEB", <<"U+1EEA">>>>, <<"U+1EED", <<"U+1EEC">>>>, <<"U+1EEF", <<"U+1EEE">>>>,
     <<"U+1EF1", <<"U+1EF0">>>>, <<"U+1EF3", <<"U+1EF2">>>>, <<"U+1EF5", <<"U+1EF4">>>>,
     <<"U+1EF7", <<"U+1EF6">>>>, <<"U+1EF9", <<"U+1EF8">>>>, <<"U+1EFB", <<"U+1EFA">>>>,
     <<"U+1EFD", <<"U+1EFC">>>>, <<"U+1EFF", <<"U+1EFE">>>>, <<"U+1F00", <<"U+1F08">>>>,
     <<"U+1F01", <<"U+1F09">>>>, <<"U+1F02", <<"U+1F0A">>>>, <<"U+1F03", <<"U+1F0B">>>>,
     <<"U+1F04", <<"U+1F0C">>>>, <<"U+1F05", <<"U+1F0D">>>>, <<"U+1F06", <<"U+1F0E">>>>,
     <<"U+1F07", <<"U+1F0F">>>>, <<"U+1F10", <<"U+1F18">>>>, <<"U+1F11", <<"U+1F19">>>>,
     <<"U+1F12", <<"U+1F1A">>>>, <<"U+1F13", <<"U+1F1B">>>>, <<"U+1F14", <<"U+1F1C">>>>,
     <<"U+1F15", <<"U+1F1D">>>>, <<"U+1F20", <<"U+1F28">>>>, <<"U+1F21", <<"U+1F29">>>>,
     <<"U+1F22", <<"U+1F2A">>>>, <<"U+1F23", <<"U+1F2B">>>>, <<"U+1F24", <<"U+1F2C">>>>,
     <<"U+1F25", <<"U+1F2D">>>>, <<"U+1F26", <<"U+1F2E">>>>, <<"U+1F27", <<"U+1F2F">>>>,
     <<"U+1F30", <<"U+1F38">>>>, <<"U+1F31", <<"U+1F39">>>>, <<"U+1F32", <<"U+1F3A">>>>,
     <<"U+1F33", <<"U+1F3B">>>>, <<"U+1F34", <<"U+1F3C">>>>, <<"U+1F35", <<"U+1F3D">>>>,
     <<"U+1F36", <<"U+1F3E">>>>, <<"U+1F37", <<"U+1F3F">>>>, <<"U+1F40", <<"U+1F48">>>>,
     <<"U+1F41", <<"U+1F49">>>>, <<"U+1F42", <<"U+1F4A">>>>, <<"U+1F43", <<"U+1F4B">>>>,
     <<"U+1F44", <<"U+1F4C">>>>, <<"U+1F45", <<"U+1F4D">>>>, <<"U+1F50", <<"U+03A5","U+0313">>>>,
     <<"U+1F51", <<"U+1F59">>>>, <<"U+1F52", <<"U+03A5","U+0313","U+0300">>>>, <<"U+1F53", <<"U+1F5B">>>>,
     <<"U+1F54", <<"U+03A5","U+0313","U+0301">>>>, <<"U+1F55", <<"U+1F5D">>>>, <<"U+1F56", <<"U+03A5","U+0313","U+0342">>>>,
     <<"U+1F57", <<"U+1F5F">>>>, <<"U+1F60", <<"U+1F68">>>>, <<"U+1F61", <<"U+1F69">>>>,
     <<"U+1F62", <<"U+1F6A">>>>, <<"U+1F63", <<"U+1F6B">>>>, <<"U+1F64", <<"U+1F6C">>>>,
     <<"U+1F65", <<"U+1F6D">>>>, <<"U+1F66", <<"U+1F6E">>>>, <<"U+1F67", <<"U+1F6F">>>>,
     <<"U+1F70", <<"U+1FBA">>>>, <<"U+1F71", <<"U+1FBB">>>>, <<"U+1F72", <<"U+1FC8">>>>,
     <<"U+1F73", <<"U+1FC9">>>>, <<"U+1F74", <<"U+1FCA">>>>, <<"U+1F75", <<"U+1FCB">>>>,
     <<"U+1F76", <<"U+1FDA">>>>, <<"U+1F77", <<"U+1FDB">>>>, <<"U+1F78", <<"U+1FF8">>>>,
     <<"U+1F79", <<"U+1FF9">>>>, <<"U+1F7A", <<"U+1FEA">>>>, <<"U+1F7B", <<"U+1FEB">>>>,
     <<"U+1F7C", <<"U+1FFA">>>>, <<"U+1F7D", <<"U+1FFB">>>>, <<"U+1F80", <<"U+1F08","U+0399">>>>,
     <<"U+1F81", <<"U+1F09","U+0399">>>>, <<"U+1F82", <<"U+1F0A","U+0399">>>>, <<"U+1F83", <<"U+1F0B","U+0399">>>>,
     <<"U+1F84", <<"U+1F0C","U+0399">>>>, <<"U+1F85", <<"U+1F0D","U+0399">>>>, <<"U+1F86", <<"U+1F0E","U+0399">>>>,
     <<"U+1F87", <<"U+1F0F","U+0399">>>>, <<"U+1F88", <<"U+1F08","U+0399">>>>, <<"U+1F89", <<"U+1F09","U+0399">>>>,
     <<"U+1F8A", <<"U+1F0A","U+0399">>>>, <<"U+1F8B", <<"U+1F0B","U+0399">>>>, <<"U+1F8C", <<"U+1F0C","U+0399">>>>,
     <<"U+1F8D", <<"U+1F0D","U+0399">>>>, <<"U+1F8E", <<"U+1F0E","U+0399">>>>, <<"U+1F8F", <<"U+1F0F","U+0399">>>>,
     <<"U+1F90", <<"U+1F28","U+0399">>>>, <<"U+1F91", <<"U+1F29","U+0399">>>>, <<"U+1F92", <<"U+1F2A","U+0399">>>>,
     <<"U+1F93", <<"U+1F2B","U+0399">>>>, <<"U+1F94", <<"U+1F2C","U+0399">>>>, <<"U+1F95", <<"U+1F2D","U+0399">>>>,
     <<"U+1F96", <<"U+1F2E","U+0399">>>>, <<"U+1F97", <<"U+1F2F","U+0399">>>>, <<"U+1F98", <<"U+1F28","U+0399">>>>,
     <<"U+1F99", <<"U+1F29","U+0399">>>>, <<"U+1F9A", <<"U+1F2A","U+0399">>>>, <<"U+1F9B", <<"U+1F2B","U+0399">>>>,
     <<"U+1F9C", <<"U+1F2C","U+0399">>>>, <<"U+1F9D", <<"U+1F2D","U+0399">>>>, <<"U+1F9E", <<"U+1F2E","U+0399">>>>,
     <<"U+1F9F", <<"U+1F2F","U+0399">>>>, <<"U+1FA0", <<"U+1F68","U+0399">>>>, <<"U+1FA1", <<"U+1F69","U+0399">>>>,
     <<"U+1FA2", <<"U+1F6A","U+0399">>>>, <<"U+1FA3", <<"U+1F6B","U+0399">>>>, <<"U+1FA4", <<"U+1F6C","U+0399">>>>,
     <<"U+1FA5", <<"U+1F6D","U+0399">>>>, <<"U+1FA6", <<"U+1F6E","U+0399">>>>, <<"U+1FA7", <<"U+1F6F","U+0399">>>>,
     <<"U+1FA8", <<"U+1F68","U+0399">>>>, <<"U+1FA9", <<"U+1F69","U+0399">>>>, <<"U+1FAA", <<"U+1F6A","U+0399">>>>,
     <<"U+1FAB", <<"U+1F6B","U+0399">>>>, <<"U+1FAC", <<"U+1F6C","U+0399">>>>, <<"U+1FAD", <<"U+1F6D","U+0399">>>>,
     <<"U+1FAE", <<"U+1F6E","U+0399">>>>, <<"U+1FAF", <<"U+1F6F","U+0399">>>>, <<"U+1FB0", <<"U+1FB8">>>>,
     <<"U+1FB1", <<"U+1FB9">>>>, <<"U+1FB2", <<"U+1FBA","U+0399">>>>, <<"U+1FB3", <<"U+0391","U+0399">>>>,
     <<"U+1FB4", <<"U+0386","U+0399">>>>, <<"U+1FB6", <<"U+0391","U+0342">>>>, <<"U+1FB7", <<"U+0391","U+0342","U+0399">>>>,
     <<"U+1FBC", <<"U+0391","U+0399">>>>, <<"U+1FBE", <<"U+0399">>>>, <<"U+1FC2", <<"U+1FCA","U+0399">>>>,
     <<"U+1FC3", <<"U+0397","U+0399">>>>, <<"U+1FC4", <<"U+0389","U+0399">>>>, <<"U+1FC6", <<"U+0397","U+0342">>>>,
     <<"U+1FC7", <<"U+0397","U+0342","U+0399">>>>, <<"U+1FCC", <<"U+0397","U+0399">>>>, <<"U+1FD0", <<"U+1FD8">>>>,
     <<"U+1FD1", <<"U+1FD9">>>>, <<"U+1FD2", <<"U+0399","U+0308","U+0300">>>>, <<"U+1FD3", <<"U+0399","U+0308","U+0301">>>>,
     <<"U+1FD6", <<"U+0399","U+0342">>>>, <<"U+1FD7", <<"U+0399","U+0308","U+0342">>>>, <<"U+1FE0", <<"U+1FE8">>>>,
     <<"U+1FE1", <<"U+1FE9">>>>, <<"U+1FE2", <<"U+03A5","U+0308","U+0300">>>>, <<"U+1FE3", <<"U+03A5","U+0308","U+0301">>>>,
     <<"U+1FE4", <<"U+03A1","U+0313">>>>, <<"U+1FE5", <<"U+1FEC">>>>, <<"U+1FE6", <<"U+03A5","U+0342">>>>,
     <<"U+1FE7", <<"U+03A5","U+0308","U+0342">>>>, <<"U+1FF2", <<"U+1FFA","U+0399">>>>, <<"U+1FF3", <<"U+03A9","U+0399">>>>,
     <<"U+1FF4", <<"U+038F","U+0399">>>>, <<"U+1FF6", <<"U+03A9","U+0342">>>>, <<"U+1FF7", <<"U+03A9","U+0342","U+0399">>>>,
     <<"U+1FFC", <<"U+03A9","U+0399">>>>, <<"U+214E", <<"U+2132">>>>, <<"U+2170", <<"U+2160">>>>,
     <<"U+2171", <<"U+2161">>>>, <<"U+2172", <<"U+2162">>>>, <<"U+2173", <<"U+2163">>>>,
     <<"U+2174", <<"U+2164">>>>, <<"U+2175", <<"U+2165">>>>, <<"U+2176", <<"U+2166">>>>,
     <<"U+2177", <<"U+2167">>>>, <<"U+2178", <<"U+2168">>>>, <<"U+2179", <<"U+2169">>>>,
     <<"U+217A", <<"U+216A">>>>, <<"U+217B", <<"U+216B">>>>, <<"U+217C", <<"U+216C">>>>,
     <<"U+217D", <<"U+216D">>>>, <<"U+217E", <<"U+216E">>>>, <<"U+217F", <<"U+216F">>>>,
     <<"U+2184", <<"U+2183">>>>, <<"U+24D0", <<"U+24B6">>>>, <<"U+24D1", <<"U+24B7">>>>,
     <<"U+24D2", <<"U+24B8">>>>, <<"U+24D3", <<"U+24B9">>>>, <<"U+24D4", <<"U+24BA">>>>,
     <<"U+24D5", <<"U+24BB">>>>, <<"U+24D6", <<"U+24BC">>>>, <<"U+24D7", <<"U+24BD">>>>,
     <<"U+24D8", <<"U+24BE">>>>, <<"U+24D9", <<"U+24BF">>>>, <<"U+24DA", <<"U+24C0">>>>,
     <<"U+24DB", <<"U+24C1">>>>, <<"U+24DC", <<"U+24C2">>>>, <<"U+24DD", <<"U+24C3">>>>,
     <<"U+24DE", <<"U+24C4">>>>, <<"U+24DF", <<"U+24C5">>>>, <<"U+24E0", <<"U+24C6">>>>,
     <<"U+24E1", <<"U+24C7">>>>, <<"U+24E2", <<"U+24C8">>>>, <<"U+24E3", <<"U+24C9">>>>,
     <<"U+24E4", <<"U+24CA">>>>, <<"U+24E5", <<"U+24CB">>>>, <<"U+24E6", <<"U+24CC">>>>,
     <<"U+24E7", <<"U+24CD">>>>, <<"U+24E8", <<"U+24CE">>>>, <<"U+24E9", <<"U+24CF">>>>,
     <<"U+2C30", <<"U+2C00">>>>, <<"U+2C31", <<"U+2C01">>>>, <<"U+2C32", <<"U+2C02">>>>,
     <<"U+2C33", <<"U+2C03">>>>, <<"U+2C34", <<"U+2C04">>>>, <<"U+2C35", <<"U+2C05">>>>,
     <<"U+2C36", <<"U+2C06">>>>, <<"U+2C37", <<"U+2C07">>>>, <<"U+2C38", <<"U+2C08">>>>,
     <<"U+2C39", <<"U+2C09">>>>, <<"U+2C3A", <<"U+2C0A">>>>, <<"U+2C3B", <<"U+2C0B">>>>,
     <<"U+2C3C", <<"U+2C0C">>>>, <<"U+2C3D", <<"U+2C0D">>>>, <<"U+2C3E", <<"U+2C0E">>>>,
     <<"U+2C3F", <<"U+2C0F">>>>, <<"U+2C40", <<"U+2C10">>>>, <<"U+2C41", <<"U+2C11">>>>,
     <<"U+2C42", <<"U+2C12">>>>, <<"U+2C43", <<"U+2C13">>>>, <<"U+2C44", <<"U+2C14">>>>,
     <<"U+2C45", <<"U+2C15">>>>, <<"U+2C46", <<"U+2C16">>>>, <<"U+2C47", <<"U+2C17">>>>,
     <<"U+2C48", <<"U+2C18">>>>, <<"U+2C49", <<"U+2C19">>>>, <<"U+2C4A", <<"U+2C1A">>>>,
     <<"U+2C4B", <<"U+2C1B">>>>, <<"U+2C4C", <<"U+2C1C">>>>, <<"U+2C4D", <<"U+2C1D">>>>,
     <<"U+2C4E", <<"U+2C1E">>>>, <<"U+2C4F", <<"U+2C1F">>>>, <<"U+2C50", <<"U+2C20">>>>,
     <<"U+2C51", <<"U+2C21">>>>, <<"U+2C52", <<"U+2C22">>>>, <<"U+2C53", <<"U+2C23">>>>,
     <<"U+2C54", <<"U+2C24">>>>, <<"U+2C55", <<"U+2C25">>>>, <<"U+2C56", <<"U+2C26">>>>,
     <<"U+2C57", <<"U+2C27">>>>, <<"U+2C58", <<"U+2C28">>>>, <<"U+2C59", <<"U+2C29">>>>,
     <<"U+2C5A", <<"U+2C2A">>>>, <<"U+2C5B", <<"U+2C2B">>>>, <<"U+2C5C", <<"U+2C2C">>>>,
     <<"U+2C5D", <<"U+2C2D">>>>, <<"U+2C5E", <<"U+2C2E">>>>, <<"U+2C5F", <<"U+2C2F">>>>,
     <<"U+2C61", <<"U+2C60">>>>, <<"U+2C65", <<"U+023A">>>>, <<"U+2C66", <<"U+023E">>>>,
     <<"U+2C68", <<"U+2C67">>>>, <<"U+2C6A", <<"U+2C69">>>>, <<"U+2C6C", <<"U+2C6B">>>>,
     <<"U+2C73", <<"U+2C72">>>>, <<"U+2C76", <<"U+2C75">>>>, <<"U+2C81", <<"U+2C80">>>>,
     <<"U+2C83", <<"U+2C82">>>>, <<"U+2C85", <<"U+2C84">>>>, <<"U+2C87", <<"U+2C86">>>>,
     <<"U+2C89", <<"U+2C88">>>>, <<"U+2C8B", <<"U+2C8A">>>>, <<"U+2C8D", <<"U+2C8C">>>>,
     <<"U+2C8F", <<"U+2C8E">>>>, <<"U+2C91", <<"U+2C90">>>>, <<"U+2C93", <<"U+2C92">>>>,
     <<"U+2C95", <<"U+2C94">>>>, <<"U+2C97", <<"U+2C96">>>>, <<"U+2C99", <<"U+2C98">>>>,
     <<"U+2C9B", <<"U+2C9A">>>>, <<"U+2C9D", <<"U+2C9C">>>>, <<"U+2C9F", <<"U+2C9E">>>>,
     <<"U+2CA1", <<"U+2CA0">>>>, <<"U+2CA3", <<"U+2CA2">>>>, <<"U+2CA5", <<"U+2CA4">>>>,
     <<"U+2CA7", <<"U+2CA6">>>>, <<"U+2CA9", <<"U+2CA8">>>>, <<"U+2CAB", <<"U+2CAA">>>>,
     <<"U+2CAD", <<"U+2CAC">>>>, <<"U+2CAF", <<"U+2CAE">>>>, <<"U+2CB1", <<"U+2CB0">>>>,
     <<"U+2CB3", <<"U+2CB2">>>>, <<"U+2CB5", <<"U+2CB4">>>>, <<"U+2CB7", <<"U+2CB6">>>>,
     <<"U+2CB9", <<"U+2CB8">>>>, <<"U+2CBB", <<"U+2CBA">>>>, <<"U+2CBD", <<"U+2CBC">>>>,
     <<"U+2CBF", <<"U+2CBE">>>>, <<"U+2CC1", <<"U+2CC0">>>>, <<"U+2CC3", <<"U+2CC2">>>>,
     <<"U+2CC5", <<"U+2CC4">>>>, <<"U+2CC7", <<"U+2CC6">>>>, <<"U+2CC9", <<"U+2CC8">>>>,
     <<"U+2CCB", <<"U+2CCA">>>>, <<"U+2CCD", <<"U+2CCC">>>>, <<"U+2CCF", <<"U+2CCE">>>>,
     <<"U+2CD1", <<"U+2CD0">>>>, <<"U+2CD3", <<"U+2CD2">>>>, <<"U+2CD5", <<"U+2CD4">>>>,
     <<"U+2CD7", <<"U+2CD6">>>>, <<"U+2CD9", <<"U+2CD8">>>>, <<"U+2CDB", <<"U+2CDA">>>>,
     <<"U+2CDD", <<"U+2CDC">>>>, <<"U+2CDF", <<"U+2CDE">>>>, <<"U+2CE1", <<"U+2CE0">>>>,
     <<"U+2CE3", <<"U+2CE2">>>>, <<"U+2CEC", <<"U+2CEB">>>>, <<"U+2CEE", <<"U+2CED">>>>,
     <<"U+2CF3", <<"U+2CF2">>>>, <<"U+2D00", <<"U+10A0">>>>, <<"U+2D01", <<"U+10A1">>>>,
     <<"U+2D02", <<"U+10A2">>>>, <<"U+2D03", <<"U+10A3">>>>, <<"U+2D04", <<"U+10A4">>>>,
     <<"U+2D05", <<"U+10A5">>>>, <<"U+2D06", <<"U+10A6">>>>, <<"U+2D07", <<"U+10A7">>>>,
     <<"U+2D08", <<"U+10A8">>>>, <<"U+2D09", <<"U+10A9">>>>, <<"U+2D0A", <<"U+10AA">>>>,
     <<"U+2D0B", <<"U+10AB">>>>, <<"U+2D0C", <<"U+10AC">>>>, <<"U+2D0D", <<"U+10AD">>>>,
     <<"U+2D0E", <<"U+10AE">>>>, <<"U+2D0F", <<"U+10AF">>>>, <<"U+2D10", <<"U+10B0">>>>,
     <<"U+2D11", <<"U+10B1">>>>, <<"U+2D12", <<"U+10B2">>>>, <<"U+2D13", <<"U+10B3">>>>,
     <<"U+2D14", <<"U+10B4">>>>, <<"U+2D15", <<"U+10B5">>>>, <<"U+2D16", <<"U+10B6">>>>,
     <<"U+2D17", <<"U+10B7">>>>, <<"U+2D18", <<"U+10B8">>>>, <<"U+2D19", <<"U+10B9">>>>,
     <<"U+2D1A", <<"U+10BA">>>>, <<"U+2D1B", <<"U+10BB">>>>, <<"U+2D1C", <<"U+10BC">>>>,
     <<"U+2D1D", <<"U+10BD">>>>, <<"U+2D1E", <<"U+10BE">>>>, <<"U+2D1F", <<"U+10BF">>>>,
     <<"U+2D20", <<"U+10C0">>>>, <<"U+2D21", <<"U+10C1">>>>, <<"U+2D22", <<"U+10C2">>>>,
     <<"U+2D23", <<"U+10C3">>>>, <<"U+2D24", <<"U+10C4">>>>, <<"U+2D25", <<"U+10C5">>>>,
     <<"U+2D27", <<"U+10C7">>>>, <<"U+2D2D", <<"U+10CD">>>>, <<"U+A641", <<"U+A640">>>>,
     <<"U+A643", <<"U+A642">>>>, <<"U+A645", <<"U+A644">>>>, <<"U+A647", <<"U+A646">>>>,
     <<"U+A649", <<"U+A648">>>>, <<"U+A64B", <<"U+A64A">>>>, <<"U+A64D", <<"U+A64C">>>>,
     <<"U+A64F", <<"U+A64E">>>>, <<"U+A651", <<"U+A650">>>>, <<"U+A653", <<"U+A652">>>>,
     <<"U+A655", <<"U+A654">>>>, <<"U+A657", <<"U+A656">>>>, <<"U+A659", <<"U+A658">>>>,
     <<"U+A65B", <<"U+A65A">>>>, <<"U+A65D", <<"U+A65C">>>>, <<"U+A65F", <<"U+A65E">>>>,
     <<"U+A661", <<"U+A660">>>>, <<"U+A663", <<"U+A662">>>>, <<"U+A665", <<"U+A664">>>>,
     <<"U+A667", <<"U+A666">>>>, <<"U+A669", <<"U+A668">>>>, <<"U+A66B", <<"U+A66A">>>>,
     <<"U+A66D", <<"U+A66C">>>>, <<"U+A681", <<"U+A680">>>>, <<"U+A683", <<"U+A682">>>>,
     <<"U+A685", <<"U+A684">>>>, <<"U+A687", <<"U+A686">>>>, <<"U+A689", <<"U+A688">>>>,
     <<"U+A68B", <<"U+A68A">>>>, <<"U+A68D", <<"U+A68C">>>>, <<"U+A68F", <<"U+A68E">>>>,
     <<"U+A691", <<"U+A690">>>>, <<"U+A693", <<"U+A692">>>>, <<"U+A695", <<"U+A694">>>>,
     <<"U+A697", <<"U+A696">>>>, <<"U+A699", <<"U+A698">>>>, <<"U+A69B", <<"U+A69A">>>>,
     <<"U+A723", <<"U+A722">>>>, <<"U+A725", <<"U+A724">>>>, <<"U+A727", <<"U+A726">>>>,
     <<"U+A729", <<"U+A728">>>>, <<"U+A72B", <<"U+A72A">>>>, <<"U+A72D", <<"U+A72C">>>>,
     <<"U+A72F", <<"U+A72E">>>>, <<"U+A733", <<"U+A732">>>>, <<"U+A735", <<"U+A734">>>>,
     <<"U+A737", <<"U+A736">>>>, <<"U+A739", <<"U+A738">>>>, <<"U+A73B", <<"U+A73A">>>>,
     <<"U+A73D", <<"U+A73C">>>>, <<"U+A73F", <<"U+A73E">>>>, <<"U+A741", <<"U+A740">>>>,
     <<"U+A743", <<"U+A742">>>>, <<"U+A745", <<"U+A744">>>>, <<"U+A747", <<"U+A746">>>>,
     <<"U+A749", <<"U+A748">>>>, <<"U+A74B", <<"U+A74A">>>>, <<"U+A74D", <<"U+A74C">>>>,
     <<"U+A74F", <<"U+A74E">>>>, <<"U+A751", <<"U+A750">>>>, <<"U+A753", <<"U+A752">>>>,
     <<"U+A755", <<"U+A754">>>>, <<"U+A757", <<"U+A756">>>>, <<"U+A759", <<"U+A758">>>>,
     <<"U+A75B", <<"U+A75A">>>>, <<"U+A75D", <<"U+A75C">>>>, <<"U+A75F", <<"U+A75E">>>>,
     <<"U+A761", <<"U+A760">>>>, <<"U+A763", <<"U+A762">>>>, <<"U+A765", <<"U+A764">>>>,
     <<"U+A767", <<"U+A766">>>>, <<"U+A769", <<"U+A768">>>>, <<"U+A76B", <<"U+A76A">>>>,
     <<"U+A76D", <<"U+A76C">>>>, <<"U+A76F", <<"U+A76E">>>>, <<"U+A77A", <<"U+A779">>>>,
     <<"U+A77C", <<"U+A77B">>>>, <<"U+A77F", <<"U+A77E">>>>, <<"U+A781", <<"U+A780">>>>,
     <<"U+A783", <<"U+A782">>>>, <<"U+A785", <<"U+A784">>>>, <<"U+A787", <<"U+A786">>>>,
     <<"U+A78C", <<"U+A78B">>>>, <<"U+A791", <<"U+A790">>>>, <<"U+A793", <<"U+A792">>>>,
     <<"U+A794", <<"U+A7C4">>>>, <<"U+A797", <<"U+A796">>>>, <<"U+A799", <<"U+A798">>>>,
     <<"U+A79B", <<"U+A79A">>>>, <<"U+A79D", <<"U+A79C">>>>, <<"U+A79F", <<"U+A79E">>>>,
     <<"U+A7A1", <<"U+A7A0">>>>, <<"U+A7A3", <<"U+A7A2">>>>, <<"U+A7A5", <<"U+A7A4">>>>,
     <<"U+A7A7", <<"U+A7A6">>>>, <<"U+A7A9", <<"U+A7A8">>>>, <<"U+A7B5", <<"U+A7B4">>>>,
     <<"U+A7B7", <<"U+A7B6">>>>, <<"U+A7B9", <<"U+A7B8">>>>, <<"U+A7BB", <<"U+A7BA">>>>,
     <<"U+A7BD", <<"U+A7BC">>>>, <<"U+A7BF", <<"U+A7BE">>>>, <<"U+A7C1", <<"U+A7C0">>>>,
     <<"U+A7C3", <<"U+A7C2">>>>, <<"U+A7C8", <<"U+A7C7">>>>, <<"U+A7CA", <<"U+A7C9">>>>,
     <<"U+A7D1", <<"U+A7D0">>>>, <<"U+A7D7", <<"U+A7D6">>>>, <<"U+A7D9", <<"U+A7D8">>>>,
     <<"U+A7F6", <<"U+A7F5">>>>, <<"U+AB53", <<"U+A7B3">>>>, <<"U+AB70", <<"U+13A0">>>>,
     <<"U+AB71", <<"U+13A1">>>>, <<"U+AB72", <<"U+13A2">>>>, <<"U+AB73", <<"U+13A3">>>>,
     <<"U+AB74", <<"U+13A4">>>>, <<"U+AB75", <<"U+13A5">>>>, <<"U+AB76", <<"U+13A6">>>>,
     <<"U+AB77", <<"U+13A7">>>>, <<"U+AB78", <<"U+13A8">>>>, <<"U+AB79", <<"U+13A9">>>>,
     <<"U+AB7A", <<"U+13AA">>>>, <<"U+AB7B", <<"U+13AB">>>>, <<"U+AB7C", <<"U+13AC">>>>,
     <<"U+AB7D", <<"U+13AD">>>>, <<"U+AB7E", <<"U+13AE">>>>, <<"U+AB7F", <<"U+13AF">>>>,
     <<"U+AB80", <<"U+13B0">>>>, <<"U+AB81", <<"U+13B1">>>>, <<"U+AB82", <<"U+13B2">>>>,
     <<"U+AB83", <<"U+13B3">>>>, <<"U+AB84", <<"U+13B4">>>>, <<"U+AB85", <<"U+13B5">>>>,
     <<"U+AB86", <<"U+13B6">>>>, <<"U+AB87", <<"U+13B7">>>>, <<"U+AB88", <<"U+13B8">>>>,
     <<"U+AB89", <<"U+13B9">>>>, <<"U+AB8A", <<"U+13BA">>>>, <<"U+AB8B", <<"U+13BB">>>>,
     <<"U+AB8C", <<"U+13BC">>>>, <<"U+AB8D", <<"U+13BD">>>>, <<"U+AB8E", <<"U+13BE">>>>,
     <<"U+AB8F", <<"U+13BF">>>>, <<"U+AB90", <<"U+13C0">>>>, <<"U+AB91", <<"U+13C1">>>>,
     <<"U+AB92", <<"U+13C2">>>>, <<"U+AB93", <<"U+13C3">>>>, <<"U+AB94", <<"U+13C4">>>>,
     <<"U+AB95", <<"U+13C5">>>>, <<"U+AB96", <<"U+13C6">>>>, <<"U+AB97", <<"U+13C7">>>>,
     <<"U+AB98", <<"U+13C8">>>>, <<"U+AB99", <<"U+13C9">>>>, <<"U+AB9A", <<"U+13CA">>>>,
     <<"U+AB9B", <<"U+13CB">>>>, <<"U+AB9C", <<"U+13CC">>>>, <<"U+AB9D", <<"U+13CD">>>>,
     <<"U+AB9E", <<"U+13CE">>>>, <<"U+AB9F", <<"U+13CF">>>>, <<"U+ABA0", <<"U+13D0">>>>,
     <<"U+ABA1", <<"U+13D1">>>>, <<"U+ABA2", <<"U+13D2">>>>, <<"U+ABA3", <<"U+13D3">>>>,
     <<"U+ABA4", <<"U+13D4">>>>, <<"U+ABA5", <<"U+13D5">>>>, <<"U+ABA6", <<"U+13D6">>>>,
     <<"U+ABA7", <<"U+13D7">>>>, <<"U+ABA8", <<"U+13D8">>>>, <<"U+ABA9", <<"U+13D9">>>>,
     <<"U+ABAA", <<"U+13DA">>>>, <<"U+ABAB", <<"U+13DB">>>>, <<"U+ABAC", <<"U+13DC">>>>,
     <<"U+ABAD", <<"U+13DD">>>>, <<"U+ABAE", <<"U+13DE">>>>, <<"U+ABAF", <<"U+13DF">>>>,
     <<"U+ABB0", <<"U+13E0">>>>, <<"U+ABB1", <<"U+13E1">>>>, <<"U+ABB2", <<"U+13E2">>>>,
     <<"U+ABB3", <<"U+13E3">>>>, <<"U+ABB4", <<"U+13E4">>>>, <<"U+ABB5", <<"U+13E5">>>>,
     <<"U+ABB6", <<"U+13E6">>>>, <<"U+ABB7", <<"U+13E7">>>>, <<"U+ABB8", <<"U+13E8">>>>,
     <<"U+ABB9", <<"U+13E9">>>>, <<"U+ABBA", <<"U+13EA">>>>, <<"U+ABBB", <<"U+13EB">>>>,
     <<"U+ABBC", <<"U+13EC">>>>, <<"U+ABBD", <<"U+13ED">>>>, <<"U+ABBE", <<"U+13EE">>>>,
     <<"U+ABBF", <<"U+13EF">>>>, <<"U+FB00", <<"F","F">>>>, <<"U+FB01", <<"F","I">>>>,
     <<"U+FB02", <<"F","L">>>>, <<"U+FB03", <<"F","F","I">>>>, <<"U+FB04", <<"F","F","L">>>>,
     <<"U+FB05", <<"S","T">>>>, <<"U+FB06", <<"S","T">>>>, <<"U+FB13", <<"U+0544","U+0546">>>>,
     <<"U+FB14", <<"U+0544","U+0535">>>>, <<"U+FB15", <<"U+0544","U+053B">>>>, <<"U+FB16", <<"U+054E","U+0546">>>>,
     <<"U+FB17", <<"U+0544","U+053D">>>>, <<"U+FF41", <<"U+FF21">>>>, <<"U+FF42", <<"U+FF22">>>>,
     <<"U+FF43", <<"U+FF23">>>>, <<"U+FF44", <<"U+FF24">>>>, <<"U+FF45", <<"U+FF25">>>>,
     <<"U+FF46", <<"U+FF26">>>>, <<"U+FF47", <<"U+FF27">>>>, <<"U+FF48", <<"U+FF28">>>>,
     <<"U+FF49", <<"U+FF29">>>>, <<"U+FF4A", <<"U+FF2A">>>>, <<"U+FF4B", <<"U+FF2B">>>>,
     <<"U+FF4C", <<"U+FF2C">>>>, <<"U+FF4D", <<"U+FF2D">>>>, <<"U+FF4E", <<"U+FF2E">>>>,
     <<"U+FF4F", <<"U+FF2F">>>>, <<"U+FF50", <<"U+FF30">>>>, <<"U+FF51", <<"U+FF31">>>>,
     <<"U+FF52", <<"U+FF32">>>>, <<"U+FF53", <<"U+FF33">>>>, <<"U+FF54", <<"U+FF34">>>>,
     <<"U+FF55", <<"U+FF35">>>>, <<"U+FF56", <<"U+FF36">>>>, <<"U+FF57", <<"U+FF37">>>>,
     <<"U+FF58", <<"U+FF38">>>>, <<"U+FF59", <<"U+FF39">>>>, <<"U+FF5A", <<"U+FF3A">>>>,
     <<"U+10428", <<"U+10400">>>>, <<"U+10429", <<"U+10401">>>>, <<"U+1042A", <<"U+10402">>>>,
     <<"U+1042B", <<"U+10403">>>>, <<"U+1042C", <<"U+10404">>>>, <<"U+1042D", <<"U+10405">>>>,
     <<"U+1042E", <<"U+10406">>>>, <<"U+1042F", <<"U+10407">>>>, <<"U+10430", <<"U+10408">>>>,
     <<"U+10431", <<"U+10409">>>>, <<"U+10432", <<"U+1040A">>>>, <<"U+10433", <<"U+1040B">>>>,
     <<"U+10434", <<"U+1040C">>>>, <<"U+10435", <<"U+1040D">>>>, <<"U+10436", <<"U+1040E">>>>,
     <<"U+10437", <<"U+1040F">>>>, <<"U+10438", <<"U+10410">>>>, <<"U+10439", <<"U+10411">>>>,
     <<"U+1043A", <<"U+10412">>>>, <<"U+1043B", <<"U+10413">>>>, <<"U+1043C", <<"U+10414">>>>,
     <<"U+1043D", <<"U+10415">>>>, <<"U+1043E", <<"U+10416">>>>, <<"U+1043F", <<"U+10417">>>>,
     <<"U+10440", <<"U+10418">>>>, <<"U+10441", <<"U+10419">>>>, <<"U+10442", <<"U+1041A">>>>,
     <<"U+10443", <<"U+1041B">>>>, <<"U+10444", <<"U+1041C">>>>, <<"U+10445", <<"U+1041D">>>>,
     <<"U+10446", <<"U+1041E">>>>, <<"U+10447", <<"U+1041F">>>>, <<"U+10448", <<"U+10420">>>>,
     <<"U+10449", <<"U+10421">>>>, <<"U+1044A", <<"U+10422">>>>, <<"U+1044B", <<"U+10423">>>>,
     <<"U+1044C", <<"U+10424">>>>, <<"U+1044D", <<"U+10425">>>>, <<"U+1044E", <<"U+10426">>>>,
     <<"U+1044F", <<"U+10427">>>>, <<"U+104D8", <<"U+104B0">>>>, <<"U+104D9", <<"U+104B1">>>>,
     <<"U+104DA", <<"U+104B2">>>>, <<"U+104DB", <<"U+104B3">>>>, <<"U+104DC", <<"U+104B4">>>>,
     <<"U+104DD", <<"U+104B5">>>>, <<"U+104DE", <<"U+104B6">>>>, <<"U+104DF", <<"U+104B7">>>>,
     <<"U+104E0", <<"U+104B8">>>>, <<"U+104E1", <<"U+104B9">>>>, <<"U+104E2", <<"U+104BA">>>>,
     <<"U+104E3", <<"U+104BB">>>>, <<"U+104E4", <<"U+104BC">>>>, <<"U+104E5", <<"U+104BD">>>>,
     <<"U+104E6", <<"U+104BE">>>>, <<"U+104E7", <<"U+104BF">>>>, <<"U+104E8", <<"U+104C0">>>>,
     <<"U+104E9", <<"U+104C1">>>>, <<"U+104EA", <<"U+104C2">>>>, <<"U+104EB", <<"U+104C3">>>>,
     <<"U+104EC", <<"U+104C4">>>>, <<"U+104ED", <<"U+104C5">>>>, <<"U+104EE", <<"U+104C6">>>>,
     <<"U+104EF", <<"U+104C7">>>>, <<"U+104F0", <<"U+104C8">>>>, <<"U+104F1", <<"U+104C9">>>>,
     <<"U+104F2", <<"U+104CA">>>>, <<"U+104F3", <<"U+104CB">>>>, <<"U+104F4", <<"U+104CC">>>>,
     <<"U+104F5", <<"U+104CD">>>>, <<"U+104F6", <<"U+104CE">>>>, <<"U+104F7", <<"U+104CF">>>>,
     <<"U+104F8", <<"U+104D0">>>>, <<"U+104F9", <<"U+104D1">>>>, <<"U+104FA", <<"U+104D2">>>>,
     <<"U+104FB", <<"U+104D3">>>>, <<"U+10597", <<"U+10570">>>>, <<"U+10598", <<"U+10571">>>>,
     <<"U+10599", <<"U+10572">>>>, <<"U+1059A", <<"U+10573">>>>, <<"U+1059B", <<"U+10574">>>>,
     <<"U+1059C", <<"U+10575">>>>, <<"U+1059D", <<"U+10576">>>>, <<"U+1059E", <<"U+10577">>>>,
     <<"U+1059F", <<"U+10578">>>>, <<"U+105A0", <<"U+10579">>>>, <<"U+105A1", <<"U+1057A">>>>,
     <<"U+105A3", <<"U+1057C">>>>, <<"U+105A4", <<"U+1057D">>>>, <<"U+105A5", <<"U+1057E">>>>,
     <<"U+105A6", <<"U+1057F">>>>, <<"U+105A7", <<"U+10580">>>>, <<"U+105A8", <<"U+10581">>>>,
     <<"U+105A9", <<"U+10582">>>>, <<"U+105AA", <<"U+10583">>>>, <<"U+105AB", <<"U+10584">>>>,
     <<"U+105AC", <<"U+10585">>>>, <<"U+105AD", <<"U+10586">>>>, <<"U+105AE", <<"U+10587">>>>,
     <<"U+105AF", <<"U+10588">>>>, <<"U+105B0", <<"U+10589">>>>, <<"U+105B1", <<"U+1058A">>>>,
     <<"U+105B3", <<"U+1058C">>>>, <<"U+105B4", <<"U+1058D">>>>, <<"U+105B5", <<"U+1058E">>>>,
     <<"U+105B6", <<"U+1058F">>>>, <<"U+105B7", <<"U+10590">>>>, <<"U+105B8", <<"U+10591">>>>,
     <<"U+105B9", <<"U+10592">>>>, <<"U+105BB", <<"U+10594">>>>, <<"U+105BC", <<"U+10595">>>>,
     <<"U+10CC0", <<"U+10C80">>>>, <<"U+10CC1", <<"U+10C81">>>>, <<"U+10CC2", <<"U+10C82">>>>,
     <<"U+10CC3", <<"U+10C83">>>>, <<"U+10CC4", <<"U+10C84">>>>, <<"U+10CC5", <<"U+10C85">>>>,
     <<"U+10CC6", <<"U+10C86">>>>, <<"U+10CC7", <<"U+10C87">>>>, <<"U+10CC8", <<"U+10C88">>>>,
     <<"U+10CC9", <<"U+10C89">>>>, <<"U+10CCA", <<"U+10C8A">>>>, <<"U+10CCB", <<"U+10C8B">>>>,
     <<"U+10CCC", <<"U+10C8C">>>>, <<"U+10CCD", <<"U+10C8D">>>>, <<"U+10CCE", <<"U+10C8E">>>>,
     <<"U+10CCF", <<"U+10C8F">>>>, <<"U+10CD0", <<"U+10C90">>>>, <<"U+10CD1", <<"U+10C91">>>>,
     <<"U+10CD2", <<"U+10C92">>>>, <<"U+10CD3", <<"U+10C93">>>>, <<"U+10CD4", <<"U+10C94">>>>,
     <<"U+10CD5", <<"U+10C95">>>>, <<"U+10CD6", <<"U+10C96">>>>, <<"U+10CD7", <<"U+10C97">>>>,
     <<"U+10CD8", <<"U+10C98">>>>, <<"U+10CD9", <<"U+10C99">>>>, <<"U+10CDA", <<"U+10C9A">>>>,
     <<"U+10CDB", <<"U+10C9B">>>>, <<"U+10CDC", <<"U+10C9C">>>>, <<"U+10CDD", <<"U+10C9D">>>>,
     <<"U+10CDE", <<"U+10C9E">>>>, <<"U+10CDF", <<"U+10C9F">>>>, <<"U+10CE0", <<"U+10CA0">>>>,
     <<"U+10CE1", <<"U+10CA1">>>>, <<"U+10CE2", <<"U+10CA2">>>>, <<"U+10CE3", <<"U+10CA3">>>>,
     <<"U+10CE4", <<"U+10CA4">>>>, <<"U+10CE5", <<"U+10CA5">>>>, <<"U+10CE6", <<"U+10CA6">>>>,
     <<"U+10CE7", <<"U+10CA7">>>>, <<"U+10CE8", <<"U+10CA8">>>>, <<"U+10CE9", <<"U+10CA9">>>>,
     <<"U+10CEA", <<"U+10CAA">>>>, <<"U+10CEB", <<"U+10CAB">>>>, <<"U+10CEC", <<"U+10CAC">>>>,
     <<"U+10CED", <<"U+10CAD">>>>, <<"U+10CEE", <<"U+10CAE">>>>, <<"U+10CEF", <<"U+10CAF">>>>,
     <<"U+10CF0", <<"U+10CB0">>>>, <<"U+10CF1", <<"U+10CB1">>>>, <<"U+10CF2", <<"U+10CB2">>>>,
     <<"U+118C0", <<"U+118A0">>>>, <<"U+118C1", <<"U+118A1">>>>, <<"U+118C2", <<"U+118A2">>>>,
     <<"U+118C3", <<"U+118A3">>>>, <<"U+118C4", <<"U+118A4">>>>, <<"U+118C5", <<"U+118A5">>>>,
     <<"U+118C6", <<"U+118A6">>>>, <<"U+118C7", <<"U+118A7">>>>, <<"U+118C8", <<"U+118A8">>>>,
     <<"U+118C9", <<"U+118A9">>>>, <<"U+118CA", <<"U+118AA">>>>, <<"U+118CB", <<"U+118AB">>>>,
     <<"U+118CC", <<"U+118AC">>>>, <<"U+118CD", <<"U+118AD">>>>, <<"U+118CE", <<"U+118AE">>>>,
     <<"U+118CF", <<"U+118AF">>>>, <<"U+118D0", <<"U+118B0">>>>, <<"U+118D1", <<"U+118B1">>>>,
     <<"U+118D2", <<"U+118B2">>>>, <<"U+118D3", <<"U+118B3">>>>, <<"U+118D4", <<"U+118B4">>>>,
     <<"U+118D5", <<"U+118B5">>>>, <<"U+118D6", <<"U+118B6">>>>, <<"U+118D7", <<"U+118B7">>>>,
     <<"U+118D8", <<"U+118B8">>>>, <<"U+118D9", <<"U+118B9">>>>, <<"U+118DA", <<"U+118BA">>>>,
     <<"U+118DB", <<"U+118BB">>>>, <<"U+118DC", <<"U+118BC">>>>, <<"U+118DD", <<"U+118BD">>>>,
     <<"U+118DE", <<"U+118BE">>>>, <<"U+118DF", <<"U+118BF">>>>, <<"U+16E60", <<"U+16E40">>>>,
     <<"U+16E61", <<"U+16E41">>>>, <<"U+16E62", <<"U+16E42">>>>, <<"U+16E63", <<"U+16E43">>>>,
     <<"U+16E64", <<"U+16E44">>>>, <<"U+16E65", <<"U+16E45">>>>, <<"U+16E66", <<"U+16E46">>>>,
     <<"U+16E67", <<"U+16E47">>>>, <<"U+16E68", <<"U+16E48">>>>, <<"U+16E69", <<"U+16E49">>>>,
     <<"U+16E6A", <<"U+16E4A">>>>, <<"U+16E6B", <<"U+16E4B">>>>, <<"U+16E6C", <<"U+16E4C">>>>,
     <<"U+16E6D", <<"U+16E4D">>>>, <<"U+16E6E", <<"U+16E4E">>>>, <<"U+16E6F", <<"U+16E4F">>>>,
     <<"U+16E70", <<"U+16E50">>>>, <<"U+16E71", <<"U+16E51">>>>, <<"U+16E72", <<"U+16E52">>>>,
     <<"U+16E73", <<"U+16E53">>>>, <<"U+16E74", <<"U+16E54">>>>, <<"U+16E75", <<"U+16E55">>>>,
     <<"U+16E76", <<"U+16E56">>>>, <<"U+16E77", <<"U+16E57">>>>, <<"U+16E78", <<"U+16E58">>>>,
     <<"U+16E79", <<"U+16E59">>>>, <<"U+16E7A", <<"U+16E5A">>>>, <<"U+16E7B", <<"U+16E5B">>>>,
     <<"U+16E7C", <<"U+16E5C">>>>, <<"U+16E7D", <<"U+16E5D">>>>, <<"U+16E7E", <<"U+16E5E">>>>,
     <<"U+16E7F", <<"U+16E5F">>>>, <<"U+1E922", <<"U+1E900">>>>, <<"U+1E923", <<"U+1E901">>>>,
     <<"U+1E924", <<"U+1E902">>>>, <<"U+1E925", <<"U+1E903">>>>, <<"U+1E926", <<"U+1E904">>>>,
     <<"U+1E927", <<"U+1E905">>>>, <<"U+1E928", <<"U+1E906">>>>, <<"U+1E929", <<"U+1E907">>>>,
     <<"U+1E92A", <<"U+1E908">>>>, <<"U+1E92B", <<"U+1E909">>>>, <<"U+1E92C", <<"U+1E90A">>>>,
     <<"U+1E92D", <<"U+1E90B">>>>, <<"U+1E92E", <<"U+1E90C">>>>, <<"U+1E92F", <<"U+1E90D">>>>,
     <<"U+1E930", <<"U+1E90E">>>>, <<"U+1E931", <<"U+1E90F">>>>, <<"U+1E932", <<"U+1E910">>>>,
     <<"U+1E933", <<"U+1E911">>>>, <<"U+1E934", <<"U+1E912">>>>, <<"U+1E935", <<"U+1E913">>>>,
     <<"U+1E936", <<"U+1E914">>>>, <<"U+1E937", <<"U+1E915">>>>, <<"U+1E938", <<"U+1E916">>>>,
     <<"U+1E939", <<"U+1E917">>>>, <<"U+1E93A", <<"U+1E918">>>>, <<"U+1E93B", <<"U+1E919">>>>,
     <<"U+1E93C", <<"U+1E91A">>>>, <<"U+1E93D", <<"U+1E91B">>>>, <<"U+1E93E", <<"U+1E91C">>>>,
     <<"U+1E93F", <<"U+1E91D">>>>, <<"U+1E940", <<"U+1E91E">>>>, <<"U+1E941", <<"U+1E91F">>>>,
     <<"U+1E942", <<"U+1E920">>>>, <<"U+1E943", <<"U+1E921">>>>
    }

\* The same as a function of the character.
SpecialUpper ==
    [c \in {p[1] : p \in UpperPairs} |-> (CHOOSE p \in UpperPairs : p[1] = c)[2]]

\* str.upper() on one character: the characters it becomes.
upper_char(c) ==
    IF \E i \in DOMAIN LowerCase : LowerCase[i] = c
    THEN <<UpperCase[CHOOSE i \in DOMAIN LowerCase : LowerCase[i] = c]>>
    ELSE IF c \in DOMAIN SpecialUpper
    THEN SpecialUpper[c]
    ELSE <<c>>

\* str.upper()
RECURSIVE upper(_)
upper(s) == IF s = <<>> THEN <<>> ELSE upper_char(Head(s)) \o upper(Tail(s))

PNG == <<"P","N","G">>
JPEG == <<"J","P","E","G">>
GIF == <<"G","I","F">>
BMP == <<"B","M","P">>
\* output_format=None
None == <<>>

Max(a, b) == IF a >= b THEN a ELSE b
Abs(a) == IF a >= 0 THEN a ELSE -a

\* ------------------------------------------------------------- geometry
\* asked_width = size[0] or (w * size[1]) // h
asked_width(w, h, size) == IF size[1] # 0 THEN size[1] ELSE (w * size[2]) \div h

\* asked_height = size[1] or (h * size[0]) // w
asked_height(w, h, size) == IF size[2] # 0 THEN size[2] ELSE (h * size[1]) \div w

\* if w / asked_width > h / asked_height: ... else: ...
\* (true division of positive integers, compared exactly)
crop_ratio(w, h, aw, ah) ==
    IF w * ah > h * aw
    THEN <<w, (ah * w) \div aw>>
    ELSE <<(aw * h) \div ah, h>>

\* Mutant of clamp_width: the clamp on the width is missing.
clamp_width_missing(w, win) == win

\* if new_w > w: new_w, new_h = w, (new_h * w) // new_w
clamp_width(w, win) ==
    IF win[1] > w THEN <<w, (win[2] * w) \div win[1]>> ELSE win

\* if new_h > h: new_w, new_h = (new_w * h) // new_h, h
clamp_height(h, win) ==
    IF win[2] > h THEN <<(win[1] * h) \div win[2], h>> ELSE win

\* (new_w, new_h) after the two clamps
crop_window(w, h, aw, ah) ==
    clamp_height(h, clamp_width(w, crop_ratio(w, h, aw, ah)))

\* 2 * center_y: 0.5 by default, 0 for 'top', 1 for 'bottom'
center_y2(crop) ==
    IF crop = "top" THEN 0 ELSE IF crop = "bottom" THEN 2 ELSE 1

\* 2 * center_x
center_x2 == 1

\* The box given to image.crop, in half pixels:
\* (x_offset, h_offset, x_offset + new_w, h_offset + new_h)
crop_box2(w, h, win, crop) ==
    LET x_offset2 == (w - win[1]) * center_x2
        h_offset2 == (h - win[2]) * center_y2(crop)
    IN  <<x_offset2, h_offset2, x_offset2 + 2 * win[1], h_offset2 + 2 * win[2]>>

\* Python's round() of v2 / 2 for v2 >= 0: halves go to the even integer.
py_round2(v2) ==
    IF v2 % 2 = 0
    THEN v2 \div 2
    ELSE LET k == (v2 - 1) \div 2 IN IF k % 2 = 0 THEN k ELSE k + 1

\* Image.crop: x0, y0, x1, y1 = map(int, map(round, box)); size (x1-x0, y1-y0)
pil_crop(box2) ==
    <<py_round2(box2[3]) - py_round2(box2[1]),
      py_round2(box2[4]) - py_round2(box2[2])>>

\* Image.resize refuses a target without pixels ("height and width must be > 0").
resize(target) ==
    IF target[1] < 1 \/ target[2] < 1
    THEN [err |-> TRUE, size |-> <<>>]
    ELSE [err |-> FALSE, size |-> target]

\* Image.thumbnail of Pillow < 7:
\*   x, y = self.size
\*   if x > size[0]: y = int(max(y * size[0] / x, 1)); x = int(size[0])
\*   if y > size[1]: x = int(max(x * size[1] / y, 1)); y = int(size[1])
\*   if size == self.size: return
\*   im = self.resize(size, resample)
thumbnail_legacy(isz, size) ==
    LET y1 == IF isz[1] > size[1] THEN Max((isz[2] * size[1]) \div isz[1], 1) ELSE isz[2]
        x1 == IF isz[1] > size[1] THEN size[1] ELSE isz[1]
        x2 == IF y1 > size[2] THEN Max((x1 * size[2]) \div y1, 1) ELSE x1
        y2 == IF y1 > size[2] THEN size[2] ELSE y1
    IN  IF <<x2, y2>> = isz
        THEN [err |-> FALSE, size |-> isz]
        ELSE resize(<<x2, y2>>)

\* math.floor(num / den) and math.ceil(num / den)
floor(num, den) == num \div den
ceil(num, den) == IF num % den = 0 THEN num \div den ELSE (num \div den) + 1

\* round_aspect(number, key) = max(min(floor(number), ceil(number), key=key), 1)
\* f and c are the floor and the ceiling; closer says that key(f) <= key(c).
round_aspect(f, c, closer) == Max(IF closer THEN f ELSE c, 1)

\* Image.thumbnail of Pillow >= 7:
\*   x, y = size
\*   if x >= self.width and y >= self.height: return
\*   aspect = self.width / self.height
\*   if x / y >= aspect:
\*       x = round_aspect(y * aspect, key=lambda n: abs(aspect - n / y))
\*   else:
\*       y = round_aspect(x / aspect, key=lambda n: 0 if n == 0 else abs(aspect - x / n))
\*   if self.size != size: im = self.resize(size, ...)
\* The keys are floats.  Where the two keys differ as rationals the floats
\* order them the same way; where they are equal as rationals (the number is
\* exactly halfway, or its harmonic analogue) the float rounding of the two
\* quotients decides, and ties says which way: "floor" or "ceil".
thumbnail_modern(isz, size, ties) ==
    LET iw == isz[1]
        ih == isz[2]
        x == size[1]
        y == size[2]
        before(kf, kc) == kf < kc \/ (kf = kc /\ ties = "floor")
        keyx(f, c) == before(Abs(iw * y - f * ih), Abs(iw * y - c * ih))
        keyy(f, c) == f = 0 \/ before(Abs(iw * f - x * ih) * c, Abs(iw * c - x * ih) * f)
    IN  IF x >= iw /\ y >= ih
        THEN [err |-> FALSE, size |-> isz]
        ELSE IF ih = 0 \/ y = 0
        THEN [err |-> TRUE, size |-> <<>>]
        ELSE LET target == IF x * ih >= iw * y
                           THEN <<round_aspect(floor(y * iw, ih), ceil(y * iw, ih),
                                               keyx(floor(y * iw, ih), ceil(y * iw, ih))), y>>
                           ELSE <<x, round_aspect(floor(x * ih, iw), ceil(x * ih, iw),
                                                  keyy(floor(x * ih, iw), ceil(x * ih, iw)))>>
             IN  IF target = isz
                 THEN [err |-> FALSE, size |-> isz]
                 ELSE resize(target)

\* image.thumbnail((asked_width, asked_height), Image.LANCZOS)
thumbnail(p, isz, size, ties) ==
    IF p = "legacy"
    THEN thumbnail_legacy(isz, size)
    ELSE thumbnail_modern(isz, size, ties)

\* ------------------------------------------------------------- pipeline
\* The result of the resize / crop block when it is skipped or not reached.
NoGeometry ==
    [fault |-> "", asked |-> <<>>, window |-> <<>>, box2 |-> <<>>,
     cropped |-> <<>>, out |-> <<>>]

\* The image after image.thumbnail: its new size, or the fault.
thumbnailed(g, t) ==
    IF t.err THEN [g EXCEPT !.fault = "thumbnail_error"] ELSE [g EXCEPT !.out = t.size]

\* if crop: ... image = image.crop(...), then image.thumbnail(...)
crop_then_thumbnail(p, w, h, aw, ah, crop, ties, win) ==
    thumbnailed([NoGeometry EXCEPT !.asked = <<aw, ah>>, !.window = win,
                                   !.box2 = crop_box2(w, h, win, crop),
                                   !.cropped = pil_crop(crop_box2(w, h, win, crop))],
                thumbnail(p, pil_crop(crop_box2(w, h, win, crop)), <<aw, ah>>, ties))

\* The block under "if size and (size[0] or size[1])" for the asked size.
resize_crop_asked(p, w, h, aw, ah, crop, ties) ==
    IF crop # ""
    THEN IF aw = 0 \/ ah = 0
         THEN [NoGeometry EXCEPT !.asked = <<aw, ah>>, !.fault = "zero_division"]
         ELSE crop_then_thumbnail(p, w, h, aw, ah, crop, ties,
                                  crop_window(w, h, aw, ah))
    ELSE thumbnailed([NoGeometry EXCEPT !.asked = <<aw, ah>>],
                     thumbnail(p, <<w, h>>, <<aw, ah>>, ties))

\* if size and (size[0] or size[1]): ... image.thumbnail(...)
\* fault: "" (none), "zero_division" (w / asked_width or h / asked_height with
\* a zero divisor), "thumbnail_error" (Image.thumbnail raised).
resize_crop(p, w, h, size, crop, ties) ==
    IF size[1] = 0 /\ size[2] = 0
    THEN [NoGeometry EXCEPT !.out = <<w, h>>]
    ELSE resize_crop_asked(p, w, h, asked_width(w, h, size),
                           asked_height(w, h, size), crop, ties)

\* Mutant of resolve_format: the format is compared without upper().
resolve_format_case_sensitive(output_format, image_format) ==
    LET f == IF output_format # None THEN output_format ELSE image_format
    IN  IF f = BMP THEN PNG
        ELSE IF f \notin {PNG, JPEG, GIF} THEN JPEG
        ELSE f

\* output_format = (output_format or image.format).upper()
\* if output_format == 'BMP': 'PNG' elif not in ['PNG', 'JPEG', 'GIF']: 'JPEG'
resolve_format(output_format, image_format) ==
    LET f == upper(IF output_format # None THEN output_format ELSE image_format)
    IN  IF f = BMP THEN PNG
        ELSE IF f \notin {PNG, JPEG, GIF} THEN JPEG
        ELSE f

\* opt: {'format': output_format}, plus 'optimize' and, for JPEG, 'quality'
encode_options(output_format, quality) ==
    IF output_format = JPEG
    THEN [format |-> output_format, optimize |-> TRUE, quality |-> quality]
    ELSE [format |-> output_format, optimize |-> TRUE]

\* Mutant of randrange: the stop value is included.
randrange_inclusive(start, stop, step) ==
    {v \in start..stop : (v - start) % step = 0}

\* randrange(start, stop, step): the values it can return
randrange(start, stop, step) ==
    {v \in start..(stop - 1) : (v - start) % step = 0}

\* The colours line 145 can draw.
colors ==
    LET c == randrange(32, 224, 24) IN c \X c \X c

\* base64_to_image: the source carries what Pillow decodes from it.
base64_to_image(base64_source) == base64_source.image

NoOpt == [format |-> None]

\* An image as Pillow decodes it: its size, format and mode, and whether its
\* info holds 'transparency' (a palette image with a transparent colour).
Image(w, h, format, mode, transparency) ==
    [err |-> FALSE, size |-> <<w, h>>, format |-> format, mode |-> mode,
     transparency |-> transparency]

\* The most common mode of a file of the format.
usual_mode(format) == IF format = GIF THEN "P" ELSE "RGB"

\* An image in the usual mode of its format.
Img(w, h, format) == Image(w, h, format, usual_mode(format), FALSE)

\* The failure to decode an image.
Undecodable ==
    [err |-> TRUE, size |-> <<>>, format |-> None, mode |-> "",
     transparency |-> FALSE]

\* A base64 source given as bytes: its first character and what it decodes to.
Source(head, image) == [type |-> "bytes", head |-> head, image |-> image]

\* The same given as a str (the docstring allows "string or bytes").
Str(head, image) == [type |-> "str", head |-> head, image |-> image]

\* A falsy source (b'', None, False), which is also the False that
\* image_process returns for it.
Falsy == Source("", Undecodable)

\* No value: the call raised.
Raised == Source("raised", Undecodable)

\* First base64 character of an encoded file of the given format
\* (the top six bits of its first byte: 0x89, 0xFF, 'G').
magic(format) ==
    IF format = PNG THEN "i" ELSE IF format = JPEG THEN "/" ELSE "R"

\* The mode of the image Pillow decodes from a saved file: a GIF is a palette
\* image, and the JPEG writer stores a bilevel image as greyscale.
decoded_mode(mode, format) ==
    IF format = GIF THEN "P"
    ELSE IF format = JPEG /\ mode = "1" THEN "L"
    ELSE mode

\* image_to_base64(image, **opt): image.save(stream, format=format, **params)
image_to_base64(size, opt, mode) ==
    Source(magic(opt.format),
           Image(size[1], size[2], opt.format, decoded_mode(mode, opt.format), FALSE))

NoResult ==
    [outcome |-> "none", value |-> Raised, decoded |-> FALSE,
     geometry |-> NoGeometry, opt |-> NoOpt, color |-> <<>>]

\* if base64_source[:1] == b'P': don't process SVG
\* (a str never equals the bytes b'P')
is_svg(base64_source) == base64_source.type = "bytes" /\ base64_source.head = "P"

\* if verify_resolution and w * h > IMAGE_MAX_RESOLUTION: raise ValueError
resolution_exceeded(verify_resolution, w, h) ==
    verify_resolution /\ w * h > IMAGE_MAX_RESOLUTION

\* What the installed Pillow does where its versions differ: whether
\* image.save accepts an image without pixels, whether image.paste accepts a
\* mask of mode LA, and whether putalpha on a palette image gives mode PA
\* (otherwise RGBA).
Builds == [empty_saved : BOOLEAN, la_mask : BOOLEAN, pa : BOOLEAN]

\* image.paste(original, mask=original): the modes Pillow takes as a mask;
\* any other raises ValueError('bad transparency mask').
mask_accepted(mode, build) ==
    mode \in {"1", "L", "RGBA", "RGBa"} \/ (mode = "LA" /\ build.la_mask)

\* image.mode in ('RGBA', 'LA') or (image.mode == 'P' and 'transparency' in image.info)
has_alpha(mode, transparency) ==
    mode \in {"RGBA", "LA"} \/ (mode = "P" /\ transparency)

\* if output_format == 'PNG': the image becomes a palette image, and
\* putalpha(alpha) makes it PA or RGBA when there is an alpha.
png_mode(mode, transparency, build) ==
    IF has_alpha(mode, transparency)
    THEN IF build.pa THEN "PA" ELSE "RGBA"
    ELSE "P"

\* if image.mode not in ["1", "L", "P", "RGB", "RGBA"] or (output_format ==
\* 'JPEG' and image.mode == 'RGBA'): image = image.convert("RGB")
save_mode(mode, output_format) ==
    IF mode \notin {"1", "L", "P", "RGB", "RGBA"}
       \/ (output_format = JPEG /\ mode = "RGBA")
    THEN "RGB"
    ELSE mode

\* image.save: the JPEG writer takes the modes 1, L, RGB, RGBX, CMYK and YCbCr
\* and raises OSError for any other; the PNG and GIF writers take every mode
\* that reaches them.
writable(mode, output_format) ==
    output_format # JPEG \/ mode \in {"1", "L", "RGB", "RGBX", "CMYK", "YCbCr"}

\* Lines 150-169 for the image of the given mode: the mode that is saved.
encoded_mode(mode, transparency, opt, build) ==
    save_mode(IF opt.format = PNG THEN png_mode(mode, transparency, build) ELSE mode,
              opt.format)

\* image_to_base64 on the image of the given mode.
encode(r, mode, build) ==
    IF ((r.geometry.out[1] = 0 \/ r.geometry.out[2] = 0) /\ ~build.empty_saved)
       \/ ~writable(mode, r.opt.format)
    THEN [r EXCEPT !.outcome = "encode_error"]
    ELSE [r EXCEPT !.outcome = "encoded",
                   !.value = image_to_base64(r.geometry.out, r.opt, mode)]

\* The tail of image_process, from colorize to image_to_base64, for the
\* image that the resize / crop block left (or the fault it raised).
\* Colorize draws the colour, then pastes the original with itself as mask
\* on a new RGB image.
colorize_and_encode(g, opt, image, colorize, color, build) ==
    IF g.fault # ""
    THEN [NoResult EXCEPT !.decoded = TRUE, !.geometry = g, !.outcome = g.fault]
    ELSE IF colorize /\ ~mask_accepted(image.mode, build)
    THEN [NoResult EXCEPT !.decoded = TRUE, !.geometry = g, !.color = color,
                          !.outcome = "colorize_error"]
    ELSE IF colorize
    THEN encode([NoResult EXCEPT !.decoded = TRUE, !.geometry = g, !.opt = opt,
                                 !.color = color],
                encoded_mode("RGB", FALSE, opt, build), build)
    ELSE encode([NoResult EXCEPT !.decoded = TRUE, !.geometry = g, !.opt = opt],
                encoded_mode(image.mode, image.transparency, opt, build), build)

\* image_process from "w, h = image.size" on, for the decoded image.
process_image(p, image, size, verify_resolution, quality, crop, colorize, output_format, color, ties, build) ==
    IF image.err
    THEN [NoResult EXCEPT !.decoded = TRUE, !.outcome = "decode_error"]
    ELSE IF resolution_exceeded(verify_resolution, image.size[1], image.size[2])
    THEN [NoResult EXCEPT !.decoded = TRUE, !.outcome = "resolution_error"]
    ELSE colorize_and_encode(
             resize_crop(p, image.size[1], image.size[2], size, crop, ties),
             encode_options(resolve_format(output_format, image.format), quality),
             image, colorize, color, build)

\* image_process.  color is what the three randrange calls return when
\* colorize is set; ties is the way Pillow's float keys fall on a tie; build
\* is what the installed Pillow does where its versions differ.
\* outcome: "False" (the falsy result), "source" (the source itself),
\* "decode_error", "resolution_error", "zero_division", "thumbnail_error",
\* "colorize_error", "encode_error", "encoded".
image_process(p, base64_source, size, verify_resolution, quality, crop, colorize, output_format, color, ties, build) ==
    IF base64_source.head = ""
    THEN [NoResult EXCEPT !.outcome = "False", !.value = Falsy]
    ELSE IF is_svg(base64_source)
    THEN [NoResult EXCEPT !.outcome = "source", !.value = base64_source]
    ELSE process_image(p, base64_to_image(base64_source), size,
                       verify_resolution, quality, crop, colorize,
                       output_format, color, ties, build)

\* ----------------------------------------------------------------- state
\* pil: the Pillow the build runs.  call: the last call and its arguments.
\* ret: what that call did and returned.  vals: the mapping that
\* image_resize_images updates in place.
NoCall == [fn |-> "none"]

PilVersions == {"legacy", "modern"}

\* falsy crop (None, False, ''), the three documented values and any other
\* truthy one
Crops == {"", "center", "top", "bottom", "middle"}

Sizes == (0..MaxSize) \X (0..MaxSize)

SmallSources == {Source("i", Img(w, h, PNG)) : w \in 1..MaxDim, h \in 1..MaxDim}

Init ==
    /\ pil \in PilVersions
    /\ call = NoCall
    /\ ret = NoResult
    /\ vals = [k \in {} |-> Falsy]

\* The builds that a call can tell apart.  paste is called only when colorize
\* is set, and it leaves an RGB image, on which putalpha is not called; an
\* image without pixels can only come from the resize / crop block, which
\* is skipped for a size (0, 0).
consulted(colorize, size) ==
    {b \in Builds : /\ IF colorize THEN ~b.pa ELSE ~b.la_mask
                    /\ b.empty_saved \/ size[1] # 0 \/ size[2] # 0}

\* The ways a tie can fall that a call can tell apart: only the thumbnail of
\* Pillow >= 7 compares float keys, and it is not called for a size (0, 0).
tie_ways(p, size) ==
    IF p = "legacy" \/ (size[1] = 0 /\ size[2] = 0)
    THEN {"floor"}
    ELSE {"floor", "ceil"}

\* One call of image_process with the given arguments, from entry point fn.
\* Calls share no state, so a behaviour is one call on a fresh interpreter.
Process(fn, base64_source, size, verify_resolution, quality, crop, colorize, output_format) ==
    \E color \in (IF colorize THEN colors ELSE {<<>>}),
       ties \in tie_ways(pil, size), build \in consulted(colorize, size) :
        /\ call = NoCall
        /\ call' = [fn |-> fn, base64_source |-> base64_source, size |-> size,
                    verify_resolution |-> verify_resolution, quality |-> quality,
                    crop |-> crop, colorize |-> colorize,
                    output_format |-> output_format]
        /\ ret' = image_process(pil, base64_source, size, verify_resolution,
                                quality, crop, colorize, output_format, color, ties,
                                build)
        /\ UNCHANGED <<pil, vals>>

image_process_call(base64_source, size, verify_resolution, quality, crop, colorize, output_format) ==
    Process("image_process", base64_source, size, verify_resolution, quality,
            crop, colorize, output_format)

image_resize_image(base64_source, size, filetype) ==
    Process("image_resize_image", base64_source, size, FALSE, 80, "", FALSE, filetype)

image_optimize_for_web(base64_source, max_width, quality) ==
    Process("image_optimize_for_web", base64_source, <<max_width, 0>>, TRUE,
            quality, "", FALSE, None)

crop_image(base64_source, size, type, image_format) ==
    Process("crop_image", base64_source, size, FALSE, 80, type, FALSE, image_format)

image_colorize(base64_source) ==
    Process("image_colorize", base64_source, <<0, 0>>, FALSE, 80, "", TRUE, None)

limited_image_resize(base64_source, width, height, crop) ==
    Process("limited_image_resize", base64_source, <<width, height>>, FALSE, 80,
            crop, FALSE, None)

\* ------------------------------------------------- geometry specification
GeomProcess ==
    /\ call = NoCall
    /\ \E s \in SmallSources, size \in Sizes, crop \in Crops :
          image_process_call(s, size, FALSE, 80, crop, FALSE, None)

GeomResize ==
    /\ call = NoCall
    /\ \E s \in SmallSources, size \in Sizes :
          image_resize_image(s, size, None)

GeomCrop ==
    /\ call = NoCall
    /\ \E s \in SmallSources, size \in Sizes :
          crop_image(s, size, "center", None)

GeomLimited ==
    /\ call = NoCall
    /\ \E s \in SmallSources, size \in Sizes, crop \in {"", "bottom"} :
          limited_image_resize(s, size[1], size[2], crop)

NextGeom == GeomProcess \/ GeomResize \/ GeomCrop \/ GeomLimited

SpecGeom == Init /\ [][NextGeom]_vars

\* ----------------------------------------- resolution guard specification
\* 9000 x 5000 is exactly IMAGE_MAX_RESOLUTION pixels; 9001 x 5000 is more.
GuardDims == (1..MaxGuardSize) \cup {5000, 9000, 9001}

GuardSources == {Source("/", Img(w, h, JPEG)) : w \in GuardDims, h \in GuardDims}

GuardSizes == (0..MaxGuardSize) \X (0..MaxGuardSize)

GuardProcess ==
    /\ call = NoCall
    /\ \E s \in GuardSources, size \in GuardSizes, verify_resolution \in BOOLEAN,
          crop \in {"", "center"} :
          image_process_call(s, size, verify_resolution, 80, crop, FALSE, None)

GuardOptimize ==
    /\ call = NoCall
    /\ \E s \in GuardSources, max_width \in 0..MaxGuardSize, quality \in {80, 95} :
          image_optimize_for_web(s, max_width, quality)

NextGuard == GuardProcess \/ GuardOptimize

SpecGuard == Init /\ [][NextGuard]_vars

\* ------------------------------------------------- format specification
PPM == <<"P","P","M">>
TIFF == <<"T","I","F","F">>

\* Image.preinit() with Image._initialized = 2 (lines 12-14) leaves Image.open
\* the BMP, GIF, JPEG, PPM and PNG plugins only: these are the formats a
\* decoded image reports.
IntrinsicFormats == {PNG, JPEG, GIF, BMP, PPM}

\* The first base64 character of a file of the format.
format_head(format) ==
    IF format = PNG THEN "i" ELSE IF format = JPEG THEN "/"
    ELSE IF format = GIF THEN "R" ELSE IF format = BMP THEN "Q"
    ELSE "U"

\* One image of each format in its usual mode, and images in other modes the
\* format allows: PNG with alpha, with a transparent palette colour and in
\* greyscale with alpha, a CMYK JPEG, a palette BMP and a bilevel PPM.
FormatSources ==
    {Source(format_head(f), Img(2, 3, f)) : f \in IntrinsicFormats}
        \cup {Source("i", Image(2, 3, PNG, "RGBA", FALSE)),
              Source("i", Image(2, 3, PNG, "P", TRUE)),
              Source("i", Image(2, 3, PNG, "LA", FALSE)),
              Source("/", Image(2, 3, JPEG, "CMYK", FALSE)),
              Source("Q", Image(2, 3, BMP, "P", FALSE)),
              Source("U", Image(2, 3, PPM, "1", FALSE))}

\* Requested formats: none, the three outputs and BMP in several cases,
\* strings that are none of them, and strings with characters outside ASCII
\* (g, dotless i, f is 'GIF' once upper-cased).
OutputFormats ==
    {None, PNG, <<"p","n","g">>, <<"P","n","g">>, JPEG, <<"j","p","e","g">>,
     <<"J","p","e","G">>, <<"j","p","g">>, <<"J","P","G">>, GIF, <<"g","i","f">>,
     BMP, <<"b","m","p">>, <<"B","m","p">>, TIFF, <<"w","e","b","p">>, PPM,
     <<"P","N">>, <<"P","N","G","8">>, <<"i","c","o">>,
     <<"g","U+0131","f">>, <<"G","U+0131","F">>, <<"g","U+FB01">>,
     <<"g","i","U+FB00">>, <<"j","p","U+00E9","g">>, <<"U+00DF">>,
     <<"b","m","p","U+017F">>, <<"p","U+0149","g">>, <<"U+01F0","p","e","g">>,
     <<"j","p","U+00E4","g">>}

FormatProcess ==
    /\ call = NoCall
    /\ \E s \in FormatSources, quality \in {1, 80, 95}, f \in OutputFormats :
          image_process_call(s, <<0, 0>>, FALSE, quality, "", FALSE, f)

FormatResize ==
    /\ call = NoCall
    /\ \E s \in FormatSources, f \in OutputFormats :
          image_resize_image(s, IMAGE_BIG_SIZE, f)

FormatCrop ==
    /\ call = NoCall
    /\ \E s \in FormatSources, f \in OutputFormats :
          crop_image(s, <<2, 2>>, "center", f)

NextFormat == FormatProcess \/ FormatResize \/ FormatCrop

SpecFormat == Init /\ [][NextFormat]_vars

\* ------------------------------------------------ colorize specification
\* PNG images with alpha (RGBA, LA), in greyscale and without alpha, and a GIF.
ColorSources ==
    {Source("i", Image(2, 3, PNG, "RGBA", FALSE)), Source("i", Img(2, 3, PNG)),
     Source("i", Image(1, 2, PNG, "LA", FALSE)), Source("i", Image(2, 1, PNG, "L", FALSE)),
     Source("R", Img(1, 1, GIF))}

ColorProcess ==
    /\ call = NoCall
    /\ \E s \in ColorSources, colorize \in BOOLEAN :
          image_process_call(s, <<0, 0>>, FALSE, 80, "", colorize, None)

ColorColorize ==
    /\ call = NoCall
    /\ \E s \in ColorSources : image_colorize(s)

NextColor == ColorProcess \/ ColorColorize

SpecColor == Init /\ [][NextColor]_vars

\* ------------------------------------------- short-circuit specification
\* Empty sources and SVG sources (a file starting with '<', whose base64
\* starts with 'P'; no raster is in it), as bytes and as str; bytes that are
\* no image; a PNG as bytes and as str.
ShortSources ==
    {Falsy, Str("", Undecodable), Source("P", Undecodable), Str("P", Undecodable)}

OtherSources ==
    {Source("X", Undecodable), Source("i", Img(2, 3, PNG)), Str("i", Img(2, 3, PNG))}

SourceProcess ==
    /\ call = NoCall
    /\ \E s \in ShortSources \cup OtherSources,
          size \in {<<0, 0>>, <<1, 0>>, <<3, 3>>},
          verify_resolution \in BOOLEAN, quality \in {1, 95},
          crop \in Crops, f \in {None, <<"b","m","p">>} :
          \E colorize \in (IF s \in ShortSources THEN BOOLEAN ELSE {FALSE}) :
              image_process_call(s, size, verify_resolution, quality, crop,
                                 colorize, f)

SourceWrappers ==
    /\ call = NoCall
    /\ \E s \in ShortSources \cup OtherSources :
          \/ image_resize_image(s, IMAGE_BIG_SIZE, None)
          \/ image_optimize_for_web(s, 0, 80)
          \/ crop_image(s, <<1, 1>>, "center", None)
          \/ limited_image_resize(s, 0, 1, "")
          \/ s \in ShortSources /\ image_colorize(s)

NextSource == SourceProcess \/ SourceWrappers

SpecSource == Init /\ [][NextSource]_vars

\* ------------------------------------------------------- batch helper
\* image_resize_image_big / _large / _medium / _small with filetype=None:
\* what the call returns, or Raised.
resized(p, base64_source, size, ties, build) ==
    image_process(p, base64_source, size, FALSE, 80, "", FALSE, None, <<>>,
                  ties, build).value

\* The preset of a field of image_get_resized_images.
preset(k, large_name, medium_name, small_name) ==
    IF k = small_name THEN IMAGE_SMALL_SIZE
    ELSE IF k = medium_name THEN IMAGE_MEDIUM_SIZE
    ELSE IF k = large_name THEN IMAGE_LARGE_SIZE
    ELSE IMAGE_BIG_SIZE

\* image_get_resized_images: the dictionary of the names that are truthy
\* (a name that is not requested is False, here "").  Later assignments win.
\* ties gives, for each size, the way the floats of that resize fall.
image_get_resized_images(p, base64_source, big_name, large_name, medium_name, small_name, ties, build) ==
    [k \in {big_name, large_name, medium_name, small_name} \ {""} |->
        resized(p, base64_source, preset(k, large_name, medium_name, small_name),
                ties[preset(k, large_name, medium_name, small_name)], build)]

\* vals.get(name): None when the key is missing
get(v, name) == IF name \in DOMAIN v THEN v[name] ELSE Falsy

\* a or b
or(a, b) == IF a.head # "" THEN a ELSE b

\* biggest_image = big_image or large_image or medium_image or small_image
biggest_image(v, big_name, large_name, medium_name, small_name) ==
    or(get(v, big_name), or(get(v, large_name),
       or(get(v, medium_name), get(v, small_name))))

\* vals.update(d)
update(v, d) ==
    [k \in DOMAIN v \cup DOMAIN d |-> IF k \in DOMAIN d THEN d[k] ELSE v[k]]

\* name if requested, else False: return_big and big_name
and(requested, name) == IF requested THEN name ELSE ""

\* vals.update(image_get_resized_images(...)): an image_process that raises
\* leaves vals as it was.
update_resized(v, d) ==
    IF \E k \in DOMAIN d : d[k] = Raised
    THEN [outcome |-> "raised", vals |-> v]
    ELSE [outcome |-> "None", vals |-> update(v, d)]

\* if return_big: vals[big_name] = False, and so on: the keys that are set,
\* whatever the names are.
flagged(return_big, return_large, return_medium, return_small, big_name, large_name, medium_name, small_name) ==
    (IF return_big THEN {big_name} ELSE {})
        \cup (IF return_large THEN {large_name} ELSE {})
        \cup (IF return_medium THEN {medium_name} ELSE {})
        \cup (IF return_small THEN {small_name} ELSE {})

\* The body of image_resize_images once biggest_image is known.
resize_from(p, v, biggest, return_big, return_large, return_medium, return_small, big_name, large_name, medium_name, small_name, ties, build) ==
    IF biggest.head # ""
    THEN update_resized(v, image_get_resized_images(p, biggest,
                          and(return_big, big_name), and(return_large, large_name),
                          and(return_medium, medium_name),
                          and(return_small, small_name), ties, build))
    ELSE IF \E f \in {big_name, large_name, medium_name, small_name} : f \in DOMAIN v
    THEN [outcome |-> "None",
          vals |-> update(v, [k \in flagged(return_big, return_large, return_medium,
                                            return_small, big_name, large_name,
                                            medium_name, small_name) |-> Falsy])]
    ELSE [outcome |-> "None", vals |-> v]

\* image_resize_images: the new vals, or "raised" when image_process raised.
resize_images(p, v, return_big, return_large, return_medium, return_small, big_name, large_name, medium_name, small_name, ties, build) ==
    resize_from(p, v, biggest_image(v, big_name, large_name, medium_name, small_name),
                return_big, return_large, return_medium, return_small,
                big_name, large_name, medium_name, small_name, ties, build)

\* The default field names.
big_name == "image"
large_name == "image_large"
medium_name == "image_medium"
small_name == "image_small"
FieldNames == {big_name, large_name, medium_name, small_name}

\* The effect of a call of image_resize_images that made r.
batch_done(r, return_big, return_large, return_medium, return_small) ==
    /\ call' = [fn |-> "image_resize_images", vals |-> vals,
                return_big |-> return_big, return_large |-> return_large,
                return_medium |-> return_medium, return_small |-> return_small]
    /\ ret' = [NoResult EXCEPT !.outcome = r.outcome]
    /\ vals' = r.vals
    /\ UNCHANGED pil

\* image_resize_images(vals, return_big, return_large, return_medium,
\* return_small) with the default names.  The variants are not colorized and
\* none is without pixels (thumbnail keeps at least one pixel each way when
\* both sides of the size are positive), so that the builds differ by
\* putalpha only.
image_resize_images(return_big, return_large, return_medium, return_small) ==
    \E ties \in [flagged(return_big, return_large, return_medium, return_small,
                         IMAGE_BIG_SIZE, IMAGE_LARGE_SIZE, IMAGE_MEDIUM_SIZE,
                         IMAGE_SMALL_SIZE) -> tie_ways(pil, IMAGE_BIG_SIZE)],
       build \in consulted(FALSE, <<0, 0>>) :
        batch_done(resize_images(pil, vals, return_big, return_large,
                                 return_medium, return_small, big_name,
                                 large_name, medium_name, small_name, ties, build),
                   return_big, return_large, return_medium, return_small)

\* Values a record may hold in an image field: nothing, a large PNG with
\* alpha, an SVG as bytes and as str, bytes that are no image, a small JPEG.
BatchValues ==
    {Falsy, Source("i", Image(2000, 1000, PNG, "RGBA", FALSE)),
     Source("P", Undecodable), Str("P", Undecodable),
     Source("X", Undecodable), Source("/", Img(100, 300, JPEG))}

\* A field that is no image field.
OtherField == "name"
OtherValue == Source("n", Undecodable)

\* The mappings a call may be given: any of the four image fields, each with
\* any value, with or without the other field.
BatchVals ==
    LET images == UNION {[keys -> BatchValues] : keys \in SUBSET FieldNames}
        other == [k \in {OtherField} |-> OtherValue]
    IN  images \cup {update(f, other) : f \in images}

InitBatch ==
    /\ pil \in PilVersions
    /\ call = NoCall
    /\ ret = NoResult
    /\ vals \in BatchVals

BatchResize ==
    /\ call = NoCall
    /\ \E return_big \in BOOLEAN, return_large \in BOOLEAN,
          return_medium \in BOOLEAN, return_small \in BOOLEAN :
          image_resize_images(return_big, return_large, return_medium, return_small)

\* A second call on the mapping the first one left.
BatchResizeAgain ==
    /\ call # NoCall
    /\ call.return_big /\ ~call.return_large
    /\ \E return_large \in BOOLEAN :
          image_resize_images(FALSE, return_large, TRUE, TRUE)

NextBatch == BatchResize \/ BatchResizeAgain

SpecBatch == InitBatch /\ [][NextBatch]_vars

\* ----------------------------------------------------- reading the state
\* A call has been made.
Called == call.fn # "none"

\* The image that the call's source decodes to, and its width and height.
Original == call.base64_source.image
OrigW == Original.size[1]
OrigH == Original.size[2]

\* The call reached the crop: a window was computed.
Cropped == Called /\ ret.geometry.window # <<>>

\* ------------------------------------------------------- geometry claims

\* C1 (as stated): downscale-only.  The image handed to the encoder is never
\* larger than the original; without crop, a requested size that is at least
\* the original in every nonzero component leaves the size at the original;
\* and for size=(W,0) with 0 < W < w and no crop the output is W wide and its
\* height is within one pixel of W*h/w.
C1_DownscaleOnly ==
    Called =>
        /\ ret.outcome = "encoded" =>
              /\ ret.geometry.out[1] <= OrigW
              /\ ret.geometry.out[2] <= OrigH
        /\ ( /\ call.crop = ""
             /\ call.size[1] = 0 \/ call.size[1] >= OrigW
             /\ call.size[2] = 0 \/ call.size[2] >= OrigH )
           => ret.outcome = "encoded" /\ ret.geometry.out = <<OrigW, OrigH>>
        /\ ( /\ call.crop = ""
             /\ call.size[2] = 0
             /\ 0 < call.size[1]
             /\ call.size[1] < OrigW )
           => /\ ret.outcome = "encoded"
              /\ ret.geometry.out[1] = call.size[1]
              /\ Abs(ret.geometry.out[2] * OrigW - call.size[1] * OrigH) <= OrigW

\* C2 (as stated): with a crop of 'center', 'top' or 'bottom' and a target
\* (Wc, Hc) with 1 <= Wc <= w and 1 <= Hc <= h, the output is exactly Wc x Hc.
C2_CropReachesTarget ==
    ( /\ Called
      /\ call.crop \in {"center", "top", "bottom"}
      /\ 1 <= call.size[1] /\ call.size[1] <= OrigW
      /\ 1 <= call.size[2] /\ call.size[2] <= OrigH )
    => ret.outcome = "encoded" /\ ret.geometry.out = call.size

\* C8: crop window geometry.  Whenever a window is computed, after the clamp
\* it is no larger than the original and as wide or as high as the original;
\* the crop rectangle has the window's size and lies inside the original
\* (so does the rectangle Pillow rounds it to); it is centred horizontally;
\* 'top' puts it at the top edge, 'bottom' at the bottom edge, any other
\* truthy crop centres it vertically.  Offsets are in half pixels.
C8_CropWindowGeometry ==
    Cropped =>
        LET win == ret.geometry.window
            box2 == ret.geometry.box2
        IN  /\ win[1] <= OrigW /\ win[2] <= OrigH
            /\ win[1] = OrigW \/ win[2] = OrigH
            /\ box2[3] - box2[1] = 2 * win[1]
            /\ box2[4] - box2[2] = 2 * win[2]
            /\ 0 <= box2[1] /\ box2[3] <= 2 * OrigW
            /\ 0 <= box2[2] /\ box2[4] <= 2 * OrigH
            /\ ret.geometry.cropped[1] <= OrigW
            /\ ret.geometry.cropped[2] <= OrigH
            /\ box2[1] = OrigW - win[1]
            /\ call.crop = "top" => box2[2] = 0
            /\ call.crop = "bottom" => box2[4] = 2 * OrigH
            /\ call.crop \notin {"top", "bottom"} => box2[2] = OrigH - win[2]

\* C8 witness: a 'bottom' crop that keeps the full width and cuts the height,
\* for a target higher than the original (the clamp acted).
C8_Witness ==
    /\ Cropped
    /\ call.crop = "bottom"
    /\ call.size[2] > OrigH
    /\ ret.geometry.window[1] = OrigW
    /\ ret.geometry.window[2] < OrigH
    /\ ret.geometry.box2[2] > 0

\* C9 (as stated): for a decodable image and size components >= 0 the call
\* either returns an encoded result (or the encoder's own fault) or fails
\* with the resolution error, and that only with verify_resolution set and
\* more than IMAGE_MAX_RESOLUTION pixels; the geometry steps raise nothing.
C9_NoOtherFault ==
    (Called /\ call.base64_source.head \notin {"", "P"} /\ ~Original.err) =>
        /\ ret.outcome \in {"encoded", "encode_error", "resolution_error"}
        /\ ret.outcome = "resolution_error" =>
              /\ call.verify_resolution
              /\ OrigW * OrigH > IMAGE_MAX_RESOLUTION

\* C10 (as stated): the crop never yields an empty image: the window after
\* the clamp has new_w >= 1 and new_h >= 1.
C10_CropNeverEmpty ==
    Cropped => ret.geometry.window[1] >= 1 /\ ret.geometry.window[2] >= 1

\* ------------------------------------------------------------- C3

\* A call of image_process (direct or through a wrapper) whose source is
\* neither empty nor SVG and decodes to an image.
Decoded ==
    /\ Called
    /\ call.fn # "image_resize_images"
    /\ call.base64_source.head \notin {"", "P"}
    /\ ~Original.err

\* C3 (as stated): resolution guard.  With verify_resolution set, a decoded
\* image fails with the resolution error exactly when its original w * h is
\* more than 45,000,000 (exactly 45,000,000 passes), whatever size and crop
\* are asked; on that failure nothing is returned; and with verify_resolution
\* unset the call never fails so, and for an image of more than 45,000,000
\* pixels it returns an encoded result.
C3_ResolutionGuard ==
    Decoded =>
        /\ ret.outcome = "resolution_error"
              <=> (call.verify_resolution /\ OrigW * OrigH > 45000000)
        /\ ret.outcome = "resolution_error"
              => ret = [NoResult EXCEPT !.decoded = TRUE,
                                        !.outcome = "resolution_error"]
        /\ (~call.verify_resolution /\ OrigW * OrigH > 45000000)
              => ret.outcome = "encoded" /\ ret.value # Raised

\* ------------------------------------------------------------- C4

\* The characters that are a letter of a format name in another case: its
\* lower-case letter and, for I, the dotless i.
CaseVariants(c) ==
    {c} \cup {LowerCase[i] : i \in {j \in DOMAIN UpperCase : UpperCase[j] = c}}
        \cup (IF c = "I" THEN {"U+0131"} ELSE {})

\* s spells the upper-case name, in any mix of cases.
SameIgnoringCase(s, name) ==
    /\ Len(s) = Len(name)
    /\ \A i \in 1..Len(s) : s[i] \in CaseVariants(name[i])

\* C4: output format resolution.  The format given to the encoder (whether or
\* not the encoder then accepts the image) is PNG, JPEG or GIF.  It is decided by the requested output_format when there is
\* one, whatever the intrinsic format, and by the intrinsic format otherwise,
\* ignoring case: PNG for PNG and BMP, GIF for GIF, JPEG for JPEG and for
\* every other string.
C4_OutputFormat ==
    (Decoded /\ ret.outcome \in {"encoded", "encode_error"}) =>
        LET wanted == IF call.output_format # None
                      THEN call.output_format
                      ELSE Original.format
            is(name) == SameIgnoringCase(wanted, name)
        IN  /\ ret.opt.format \in {PNG, JPEG, GIF}
            /\ ret.opt.format = PNG <=> (is(PNG) \/ is(BMP))
            /\ ret.opt.format = GIF <=> is(GIF)
            /\ ret.opt.format = JPEG <=> ~(is(PNG) \/ is(BMP) \/ is(GIF))

\* C4 witness: 'bmp' asked for a JPEG image gives PNG.
C4_Witness ==
    /\ Decoded
    /\ call.output_format = <<"b","m","p">>
    /\ Original.format = JPEG
    /\ ret.outcome = "encoded"
    /\ ret.opt.format = PNG

\* ------------------------------------------------------------- C5

\* {lo, lo + 24, ...} up to hi, hi included
Step24(lo, hi) == {v \in lo..hi : (v - lo) % 24 = 0}

\* The call drew a background colour.
Colorized ==
    Called /\ call.fn # "image_resize_images" /\ call.colorize /\ ret.color # <<>>

\* C5 (as stated): every channel of the background is in {32, 56, ..., 224},
\* and every value of that set, 224 included, can be drawn for every channel.
C5_ChannelsUpTo224 ==
    /\ Colorized => \A i \in 1..3 : ret.color[i] \in Step24(32, 224)
    /\ ~Called =>
          \A v \in Step24(32, 224), i \in 1..3 :
              ENABLED (NextColor /\ ret'.outcome = "encoded" /\ ret'.color # <<>>
                                 /\ ret'.color[i] = v)

\* C5 (amended): every channel of the background is in {32, 56, ..., 200}
\* (step 24; the stop value 224 of randrange is excluded), and every value
\* of that set can be drawn for every channel.
C5_ChannelsUpTo200 ==
    /\ Colorized => \A i \in 1..3 : ret.color[i] \in Step24(32, 200)
    /\ ~Called =>
          \A v \in Step24(32, 200), i \in 1..3 :
              ENABLED (NextColor /\ ret'.outcome = "encoded" /\ ret'.color # <<>>
                                 /\ ret'.color[i] = v)

\* C5 witness: the largest value with two other values.
C5_Witness ==
    /\ Colorized
    /\ ret.outcome = "encoded"
    /\ ret.color = <<200, 32, 104>>

\* ------------------------------------------------------------- C6

\* C6 (as stated): non-raster inputs short-circuit.  Whatever the options,
\* an empty source gives False and a source whose first byte is 'P' gives
\* the source itself; in both cases nothing was decoded, the guard was not
\* applied, no geometry, options or colour were computed and nothing was
\* raised.
C6_ShortCircuit ==
    (Called /\ call.fn # "image_resize_images") =>
        /\ call.base64_source.head = ""
              => ret = [NoResult EXCEPT !.outcome = "False", !.value = Falsy]
        /\ call.base64_source.head = "P"
              => ret = [NoResult EXCEPT !.outcome = "source",
                                        !.value = call.base64_source]

\* ------------------------------------------------------------- C7

BatchCalled == call.fn = "image_resize_images"

\* The fields the call asks for.
Requested ==
    {n \in FieldNames : \/ n = big_name /\ call.return_big
                        \/ n = large_name /\ call.return_large
                        \/ n = medium_name /\ call.return_medium
                        \/ n = small_name /\ call.return_small}

FieldOrder == <<big_name, large_name, medium_name, small_name>>

NonEmptyIn(v, n) == n \in DOMAIN v /\ v[n].head # ""

\* The first non-empty image field of v in the order big, large, medium, small.
FirstNonEmpty(v) ==
    v[FieldOrder[CHOOSE i \in 1..4 :
                    /\ NonEmptyIn(v, FieldOrder[i])
                    /\ \A j \in 1..(i - 1) : ~NonEmptyIn(v, FieldOrder[j])]]

PresetOf(n) ==
    IF n = big_name THEN IMAGE_BIG_SIZE
    ELSE IF n = large_name THEN IMAGE_LARGE_SIZE
    ELSE IF n = medium_name THEN IMAGE_MEDIUM_SIZE
    ELSE IMAGE_SMALL_SIZE

\* C7 (as stated): image_resize_images on vals (call.vals before, vals after).
\* (1) None of the four fields is a key: vals is unchanged.
\* (2) One is a key and all present values are empty: exactly the requested
\*     fields are set to False and every other key is unchanged.
\* (3) A value is non-empty: every requested field is set to the variant, at
\*     that field's preset, of the first non-empty value in the order big,
\*     large, medium, small, and every other key is unchanged.
C7_BatchResize ==
    BatchCalled =>
        LET old == call.vals
            present == \E n \in FieldNames : n \in DOMAIN old
            nonempty == \E n \in FieldNames : NonEmptyIn(old, n)
            frame == /\ DOMAIN vals = DOMAIN old \cup Requested
                     /\ \A k \in DOMAIN old \ Requested : vals[k] = old[k]
        IN  /\ ~present => vals = old /\ ret.outcome = "None"
            /\ (present /\ ~nonempty) =>
                  /\ ret.outcome = "None"
                  /\ frame
                  /\ \A k \in Requested : vals[k] = Falsy
            /\ nonempty =>
                  /\ ret.outcome = "None"
                  /\ frame
                  /\ \A k \in Requested :
                        \E ties \in {"floor", "ceil"}, build \in Builds :
                            /\ resized(pil, FirstNonEmpty(old), PresetOf(k), ties, build) # Raised
                            /\ vals[k] = resized(pil, FirstNonEmpty(old), PresetOf(k), ties, build)

====
